---- MODULE Spec2Model ----
(***************************************************************************)
(* Verification model of the hac-rs storage stack, integrity layer, key    *)
(* set and content aggregator.  Every subsystem has its own specification  *)
(* over the shared variable tuple; the variables of the other subsystems   *)
(* stay at their initial value.                                            *)
(***************************************************************************)
EXTENDS Integers, Sequences, FiniteSets, TLC

VARIABLES
    data,            \* VecStorage.data of the byte storage S under the adapters
    block_size,      \* BlockAdapterStorage.block_size
    cache,           \* BlockCacheStorage.cache: block index -> entry
    res,             \* outcome of the last adapter operation (inner: the
                     \* read_block calls it made under the cache)
    storages,        \* ConcatStorageN.storages / ConcatStorage2.{left,right}
    cres,            \* outcome of the last concat operation
    hash_data,       \* the digests held by the hash storage, one per block
    level,           \* IntegrityVerificationLevelStorage.level
    ty,              \* IntegrityVerificationLevelStorage.ty
    block_statuses,  \* IntegrityVerificationLevelStorage.block_statuses
    readers,         \* the read_block calls in flight, one per thread
    hash_read,       \* whether hash_storage.read was ever called
    key_set,         \* KeySet: which keys it holds
    kres,            \* outcome of the last key selection of Nca::new
    fs,              \* the files of the input filesystem in walk order
    sres,            \* outcome of the last aggregator operation
    callers,         \* the BlockCacheStorage::read_block calls in flight, one
                     \* per thread
    rw,              \* RwIoStorageInner: the IO object (its bytes and cursor)
                     \* and the size the storage reports
    slice,           \* SliceStorage: offset and size, the outcome of new, and
                     \* whether the build checks arithmetic overflow
    zio,             \* FakeSeek over the Zstd decoder of an NCZ stream (resets:
                     \* how often the last read restarted the decoder)
    pure             \* the call of a function without state: its arguments,
                     \* the build's overflow checks and what it returned

adapterVars == <<data, block_size, cache, res>>
concatVars  == <<storages, cres>>
integrityVars == <<hash_data, level, ty, block_statuses, readers, hash_read>>
keyVars == <<key_set, kres>>
aggVars == <<fs, sres>>
nczVars == <<zio>>
pureVars == <<pure>>
extVars == <<nczVars, callers, rw, slice, pureVars>>

(***************************************************************************)
(* Bounds                                                                  *)
(***************************************************************************)
MaxSize      == 4    \* largest size of the byte storage S
MaxBlockSize == 3    \* largest block size of the block adapter
MaxParts     == 3    \* most parts of a concatenation
MaxPartLen   == 3    \* largest size of one part
MaxIvSize    == 2    \* largest size of a verified data storage
MaxIvBlockSize == 2  \* largest block size of a verified data storage
MaxHeldKeys  == 2    \* a keyset holds the keys of revisions below 0..MaxHeldKeys
MaxKeyGeneration2 == 2   \* largest key_generation_2 of a header
MaxRightsId  == 1    \* rights ids are 1..MaxRightsId, 0 is the empty one
MaxFiles     == 3    \* most files of an input filesystem
MaxIoLen     == 3    \* largest length of an IO object and largest set_size
MaxWord      == 7    \* largest value of a u64 in the slice model (u64::MAX)
MaxSliceRead == 2    \* longest buffer read through a slice
MaxContentInfo == 3  \* most content_info entries of a CNMT
MaxIdOffset  == 1    \* largest id_offset of a content_info entry
MaxMetas     == 3    \* most meta NCAs of an NCA set
MaxBlocks    == 2    \* most compressed blocks of an NCZ block header
MaxBlockBytes == 2   \* largest compressed size of an NCZ block
MaxEntries   == 2    \* most entries of a directory
MaxLvSize    == 3    \* largest size of the data level of a verification storage
MaxLvBlockSize == 2  \* largest block size of a level below the top one
MaxLevelCount == 3   \* most levels of a verification storage
MaxCorrupted == 1    \* most digests that change under a verification storage
CtrWord      == 64   \* the values of a u64 in the AES-CTR counter: 0..CtrWord - 1

\* The byte at position p (from 0) of a storage under test is p + 1: every
\* position holds a different value and none holds the 0 of a fresh vec![0; n]
Content(from, len) == [i \in 1..len |-> from + i]

\* what a caller's buffer holds before a read: a value no storage contains
Unwritten == 0 - 1
FreshBuf(len) == [i \in 1..len |-> Unwritten]

(***************************************************************************)
(* Slices and helpers                                                      *)
(***************************************************************************)
Min(a, b) == IF a < b THEN a ELSE b

\* num_integer::Integer::div_ceil
DivCeil(a, b) == (a + b - 1) \div b

\* s[from..][..len]
Slice(s, from, len) == SubSeq(s, from + 1, from + len)

\* buf[at..][..Len(bytes)].copy_from_slice(bytes)
Overwrite(buf, at, bytes) ==
    [i \in 1..Len(buf) |->
        IF i > at /\ i <= at + Len(bytes) THEN bytes[i - at] ELSE buf[i]]

RECURSIVE SeqSum(_)
SeqSum(s) == IF s = <<>> THEN 0 ELSE Head(s) + SeqSum(Tail(s))

RECURSIVE Flatten(_)
Flatten(ss) == IF ss = <<>> THEN <<>> ELSE Head(ss) \o Flatten(Tail(ss))

\* the element of a one-element set; {e : x \in {v}} computes v once and
\* hands its value to e
TheOnly(S) == CHOOSE x \in S : TRUE

\* all sequences over S of length 0..n
SeqsUpTo(S, n) == UNION {[1..k -> S] : k \in 0..n}

\* the parts of a concatenation whose part sizes are `sizes`
RECURSIVE PartsOf(_, _)
PartsOf(sizes, from) ==
    IF sizes = <<>> THEN <<>>
    ELSE <<Content(from, Head(sizes))>> \o PartsOf(Tail(sizes), from + Head(sizes))

(***************************************************************************)
(* VecStorage                                                              *)
(***************************************************************************)
\* data[offset..offset + len] panics when the range leaves the vector
VecStorage_read(d, offset, buf) ==
    IF offset + Len(buf) > Len(d)
    THEN [st |-> "Panic", buf |-> buf]
    ELSE [st |-> "Ok", buf |-> Slice(d, offset, Len(buf))]

VecStorage_get_size(d) == Len(d)

(***************************************************************************)
(* ReadableBlockStorageExt                                                 *)
(***************************************************************************)
block_count(size, bs) == DivCeil(size, bs)

\* defined for block_index < block_count (the assert! of the source)
nth_block_size(size, bs, block_index) ==
    IF block_index = block_count(size, bs) - 1
    THEN ((size - 1) % bs) + 1
    ELSE bs

(***************************************************************************)
(* BlockAdapterStorage over a VecStorage                                   *)
(***************************************************************************)
BlockAdapterStorage_read_block(d, bs, block_index, buf) ==
    IF Len(buf) # bs
    THEN [st |-> "Panic", buf |-> buf]      \* "Only full blocks can be read"
    ELSE VecStorage_read(d, block_index * bs, buf)

BlockAdapterStorage_read_block_bulk(d, bs, block_index, buf) ==
    IF Len(buf) % bs # 0
    THEN [st |-> "Panic", buf |-> buf]      \* "Only full blocks can be read"
    ELSE VecStorage_read(d, block_index * bs, buf)

(***************************************************************************)
(* BlockCacheStorage over a BlockAdapterStorage                            *)
(***************************************************************************)
NoEntry == [present |-> FALSE, content |-> <<>>]
Entry(bytes) == [present |-> TRUE, content |-> bytes]

\* BlockCacheStorage::read_block inserting the buffer into the cache before
\* it looks at the result of the inner read
BlockCacheStorage_read_block_InsertFirst(d, bs, c, block_index, buf) ==
    IF block_index >= block_count(Len(d), bs)
    THEN [st |-> "Panic", buf |-> buf, cache |-> c, inner |-> <<>>]
    ELSE LET bsz == nth_block_size(Len(d), bs, block_index) IN
         IF bsz > Len(buf)
         THEN [st |-> "Panic", buf |-> buf, cache |-> c, inner |-> <<>>]
         ELSE IF c[block_index].present
         THEN [st |-> "Ok",
               buf |-> Overwrite(buf, 0, c[block_index].content),
               cache |-> c, inner |-> <<>>]
         ELSE LET r == BlockAdapterStorage_read_block(d, bs, block_index,
                                                      Slice(buf, 0, bsz)) IN
              [st |-> r.st,
               buf |-> Overwrite(buf, 0, r.buf),
               cache |-> [c EXCEPT ![block_index] = Entry(r.buf)],
               inner |-> <<block_index>>]

\* inner lists the read_block calls made on the storage under the cache
BlockCacheStorage_read_block(d, bs, c, block_index, buf) ==
    IF block_index >= block_count(Len(d), bs)
    THEN [st |-> "Panic", buf |-> buf, cache |-> c,     \* nth_block_size assert
          inner |-> <<>>]
    ELSE LET bsz == nth_block_size(Len(d), bs, block_index) IN
         IF bsz > Len(buf)
         THEN [st |-> "Panic", buf |-> buf, cache |-> c, inner |-> <<>>]
         ELSE IF c[block_index].present
         THEN [st |-> "Ok",
               buf |-> Overwrite(buf, 0, c[block_index].content),
               cache |-> c, inner |-> <<>>]
         ELSE LET r == BlockAdapterStorage_read_block(d, bs, block_index,
                                                      Slice(buf, 0, bsz)) IN
              IF r.st # "Ok"
              THEN [st |-> r.st, buf |-> buf, cache |-> c,
                    inner |-> <<block_index>>]
              ELSE [st |-> "Ok",
                    buf |-> Overwrite(buf, 0, r.buf),
                    cache |-> [c EXCEPT ![block_index] = Entry(r.buf)],
                    inner |-> <<block_index>>]

\* ReadableBlockStorage::read_block_bulk, the default the cache inherits
RECURSIVE read_block_bulk_from(_, _, _, _, _, _)
read_block_bulk_from(d, bs, c, block_index, buf, i) ==
    IF i >= DivCeil(Len(buf), bs)
    THEN [st |-> "Ok", buf |-> buf, cache |-> c, inner |-> <<>>]
    ELSE LET read_size == Min(bs, Len(buf) - i * bs)
             r == BlockCacheStorage_read_block(d, bs, c, block_index + i,
                                               Slice(buf, i * bs, read_size))
         IN IF r.st # "Ok"
            THEN [st |-> r.st, buf |-> buf, cache |-> r.cache,
                  inner |-> r.inner]
            ELSE LET rest == read_block_bulk_from(d, bs, r.cache, block_index,
                                      Overwrite(buf, i * bs, r.buf), i + 1)
                 IN [rest EXCEPT !.inner = r.inner \o rest.inner]

(***************************************************************************)
(* The block storage under a LinearAdapterStorage: either the adapter      *)
(* itself or the cache around it (make_cache)                              *)
(***************************************************************************)
Kinds == {"BlockAdapterStorage", "BlockCacheStorage"}

read_block(k, d, bs, c, block_index, buf) ==
    IF k = "BlockCacheStorage"
    THEN BlockCacheStorage_read_block(d, bs, c, block_index, buf)
    ELSE LET r == BlockAdapterStorage_read_block(d, bs, block_index, buf)
         IN [st |-> r.st, buf |-> r.buf, cache |-> c, inner |-> <<>>]

read_block_bulk(k, d, bs, c, block_index, buf) ==
    IF k = "BlockCacheStorage"
    THEN read_block_bulk_from(d, bs, c, block_index, buf, 0)
    ELSE LET r == BlockAdapterStorage_read_block_bulk(d, bs, block_index, buf)
         IN [st |-> r.st, buf |-> r.buf, cache |-> c, inner |-> <<>>]

(***************************************************************************)
(* LinearAdapterStorage                                                    *)
(***************************************************************************)
LinearAdapterStorage_read(k, d, bs, c, offset, buf) ==
    LET block_buffer == [i \in 1..bs |-> 0]
        head_block_offset == offset % bs
        head == IF head_block_offset # 0
                THEN read_block(k, d, bs, c, offset \div bs, block_buffer)
                ELSE [st |-> "Ok", buf |-> block_buffer, cache |-> c,
                      inner |-> <<>>]
    IN
    IF head.st # "Ok"
    THEN [st |-> head.st, buf |-> buf, cache |-> head.cache,
          inner |-> head.inner]
    ELSE
    LET head_block_size == IF head_block_offset # 0
                           THEN Min(bs - head_block_offset, Len(buf))
                           ELSE 0
        buf1 == Overwrite(buf, 0,
                          Slice(head.buf, head_block_offset, head_block_size))
        offset1 == offset + head_block_size
        body_block_count == (Len(buf) - head_block_size) \div bs
        body == read_block_bulk(k, d, bs, head.cache, offset1 \div bs,
                                Slice(buf1, head_block_size,
                                      body_block_count * bs))
    IN
    IF body.st # "Ok"
    THEN [st |-> body.st, buf |-> buf1, cache |-> body.cache,
          inner |-> head.inner \o body.inner]
    ELSE
    LET read_so_far == head_block_size + body_block_count * bs
        buf2 == Overwrite(buf1, head_block_size, body.buf)
        offset2 == offset1 + body_block_count * bs
        tail_len == Len(buf) - read_so_far
        tail == read_block(k, d, bs, body.cache, offset2 \div bs, head.buf)
    IN
    IF tail_len = 0
    THEN [st |-> "Ok", buf |-> buf2, cache |-> body.cache,
          inner |-> head.inner \o body.inner]
    ELSE IF tail.st # "Ok"
    THEN [st |-> tail.st, buf |-> buf2, cache |-> tail.cache,
          inner |-> head.inner \o body.inner \o tail.inner]
    ELSE [st |-> "Ok",
          buf |-> Overwrite(buf2, read_so_far, Slice(tail.buf, 0, tail_len)),
          cache |-> tail.cache,
          inner |-> head.inner \o body.inner \o tail.inner]

(***************************************************************************)
(* ConcatStorage2 and ConcatStorageN over VecStorage parts                 *)
(***************************************************************************)
ConcatStorage2_read(left, right, offset, buf) ==
    LET left_size == VecStorage_get_size(left)
        len == IF offset < left_size
               THEN Min(offset + Len(buf), left_size) - offset
               ELSE 0
        l == IF offset < left_size
             THEN VecStorage_read(left, offset, Slice(buf, 0, len))
             ELSE [st |-> "Ok", buf |-> <<>>]
    IN
    IF l.st # "Ok"
    THEN [st |-> l.st, buf |-> buf]
    ELSE LET buf1 == Overwrite(buf, 0, l.buf)
             offset1 == offset + len
             r == VecStorage_read(right, offset1 - left_size,
                                  Slice(buf, len, Len(buf) - len))
         IN IF Len(buf) - len = 0
            THEN [st |-> "Ok", buf |-> buf1]
            ELSE IF offset1 < left_size \/ r.st # "Ok"
            THEN [st |-> "Panic", buf |-> buf1]
            ELSE [st |-> "Ok", buf |-> Overwrite(buf1, len, r.buf)]

ConcatStorage2_get_size(left, right) ==
    VecStorage_get_size(left) + VecStorage_get_size(right)

\* ConcatStorageN::read with the `offset -= size` of a skipped or exhausted part
\* left out: the next part is read at the offset of the previous one
RECURSIVE ConcatStorageN_read_from_KeepOffset(_, _, _, _, _)
ConcatStorageN_read_from_KeepOffset(parts, i, offset, buf, done) ==
    IF i > Len(parts)
    THEN [st |-> "Ok", buf |-> buf]
    ELSE
    LET size == VecStorage_get_size(parts[i])
        rest == Len(buf) - done
        len == IF offset < size THEN Min(offset + rest, size) - offset ELSE 0
        r == IF offset < size
             THEN VecStorage_read(parts[i], offset, Slice(buf, done, len))
             ELSE [st |-> "Ok", buf |-> <<>>]
        offset1 == offset + len
    IN
    IF r.st # "Ok"
    THEN [st |-> r.st, buf |-> buf]
    ELSE IF rest - len = 0
    THEN [st |-> "Ok", buf |-> Overwrite(buf, done, r.buf)]
    ELSE ConcatStorageN_read_from_KeepOffset(parts, i + 1, offset1,
                                  Overwrite(buf, done, r.buf), done + len)

\* the loop of ConcatStorageN::read from part i on; `done` bytes of buf are
\* already filled and offset is relative to part i
RECURSIVE ConcatStorageN_read_from(_, _, _, _, _)
ConcatStorageN_read_from(parts, i, offset, buf, done) ==
    IF i > Len(parts)
    THEN [st |-> "Ok", buf |-> buf]
    ELSE
    LET size == VecStorage_get_size(parts[i])
        rest == Len(buf) - done
        len == IF offset < size THEN Min(offset + rest, size) - offset ELSE 0
        r == IF offset < size
             THEN VecStorage_read(parts[i], offset, Slice(buf, done, len))
             ELSE [st |-> "Ok", buf |-> <<>>]
        offset1 == offset + len
    IN
    IF r.st # "Ok"
    THEN [st |-> r.st, buf |-> buf]
    ELSE IF rest - len = 0
    THEN [st |-> "Ok", buf |-> Overwrite(buf, done, r.buf)]
    ELSE ConcatStorageN_read_from(parts, i + 1, offset1 - size,
                                  Overwrite(buf, done, r.buf), done + len)

ConcatStorageN_read(parts, offset, buf) ==
    ConcatStorageN_read_from(parts, 1, offset, buf, 0)

ConcatStorageN_get_size(parts) ==
    SeqSum([i \in 1..Len(parts) |-> VecStorage_get_size(parts[i])])

(***************************************************************************)
(* IntegrityVerificationLevelStorage over a BlockAdapterStorage, with a    *)
(* VecStorage of digests as hash storage                                   *)
(***************************************************************************)
DIGEST_SIZE == 32

IntegrityCheckLevel == {"None", "IgnoreOnInvalid", "Full"}
IntegrityStorageType == {"PartitionFs", "RomFs"}

\* vec![0; len]
ZeroBuf(len) == [i \in 1..len |-> 0]

\* Sha256::digest, taken as collision free: the digest names the hashed bytes
Sha256_digest(bytes) == [sha256 |-> bytes]

\* hash_storage.read(offset, &mut expected_hash) on a VecStorage whose data
\* is the sequence h of DIGEST_SIZE-byte digests
hash_storage_read(h, offset) ==
    IF offset + DIGEST_SIZE > Len(h) * DIGEST_SIZE
    THEN [st |-> "Panic", digest |-> Sha256_digest(<<>>)]
    ELSE [st |-> "Ok", digest |-> h[(offset \div DIGEST_SIZE) + 1]]

\* IntegrityVerificationLevelStorage::new: one Unchecked status per block
IVLS_new(size, bs) == [i \in 0..(DivCeil(size, bs) - 1) |-> "Unchecked"]

\* read_block up to the check of the level: the block buffer is the
\* caller's buffer when that is a full block, a zeroed block otherwise, and
\* the inner storage fills its first current_block_size bytes
IVLS_read_inner(d, bs, block_index, len) ==
    LET current_block_size == nth_block_size(Len(d), bs, block_index)
        block_buf == IF len = bs THEN FreshBuf(len) ELSE ZeroBuf(bs)
        r == BlockAdapterStorage_read_block(d, bs, block_index,
                                            Slice(block_buf, 0, current_block_size))
    IN [st |-> r.st,
        block_buf |-> IF r.st = "Ok" THEN Overwrite(block_buf, 0, r.buf)
                      ELSE block_buf]

\* what the caller's buffer holds when read_block returns: the block buffer
\* itself when it was borrowed, else its first len bytes once copied out
IVLS_caller_buf(block_buf, len, bs, copied) ==
    IF len = bs THEN block_buf
    ELSE IF copied THEN Slice(block_buf, 0, len)
    ELSE FreshBuf(len)

\* an Invalid block does not fail the read under Full
IVLS_verify_NeverFails(statuses, lvl, t, h, d, bs, block_index, block_buf) ==
    LET block_status == statuses[block_index]
        current_block_size == nth_block_size(Len(d), bs, block_index)
        padded == IF t = "RomFs"
                  THEN Overwrite(block_buf, current_block_size,
                                 ZeroBuf(bs - current_block_size))
                  ELSE block_buf
        bytes_to_hash == IF t = "PartitionFs" THEN current_block_size ELSE bs
        hash == Sha256_digest(Slice(padded, 0, bytes_to_hash))
        expected == hash_storage_read(h, block_index * DIGEST_SIZE)
        verdict == IF hash = expected.digest THEN "Valid" ELSE "Invalid"
    IN IF block_status # "Unchecked"
       THEN [st |-> "Ok", statuses |-> statuses, block_buf |-> block_buf,
             hash_read |-> FALSE]
       ELSE IF expected.st # "Ok"
       THEN [st |-> expected.st, statuses |-> statuses,
             block_buf |-> padded, hash_read |-> TRUE]
       ELSE [st |-> "Ok",
             statuses |-> [statuses EXCEPT ![block_index] = verdict],
             block_buf |-> padded, hash_read |-> TRUE]

\* the verdict of a block is recomputed on every read
IVLS_verify_AlwaysRecheck(statuses, lvl, t, h, d, bs, block_index, block_buf) ==
    LET current_block_size == nth_block_size(Len(d), bs, block_index)
        padded == IF t = "RomFs"
                  THEN Overwrite(block_buf, current_block_size,
                                 ZeroBuf(bs - current_block_size))
                  ELSE block_buf
        bytes_to_hash == IF t = "PartitionFs" THEN current_block_size ELSE bs
        hash == Sha256_digest(Slice(padded, 0, bytes_to_hash))
        expected == hash_storage_read(h, block_index * DIGEST_SIZE)
        verdict == IF hash = expected.digest THEN "Valid" ELSE "Invalid"
    IN IF expected.st # "Ok"
       THEN [st |-> expected.st, statuses |-> statuses,
             block_buf |-> padded, hash_read |-> TRUE]
       ELSE [st |-> IF verdict = "Invalid" /\ lvl = "Full"
                    THEN "IntegrityCheckFailed" ELSE "Ok",
             statuses |-> [statuses EXCEPT ![block_index] = verdict],
             block_buf |-> padded, hash_read |-> TRUE]

\* read_block under the mutex: the verdict is computed when the block is
\* Unchecked, and an Invalid block fails the read under Full
IVLS_verify(statuses, lvl, t, h, d, bs, block_index, block_buf) ==
    LET block_status == statuses[block_index]
        current_block_size == nth_block_size(Len(d), bs, block_index)
        padded == IF t = "RomFs"
                  THEN Overwrite(block_buf, current_block_size,
                                 ZeroBuf(bs - current_block_size))
                  ELSE block_buf
        bytes_to_hash == IF t = "PartitionFs" THEN current_block_size ELSE bs
        hash == Sha256_digest(Slice(padded, 0, bytes_to_hash))
        expected == hash_storage_read(h, block_index * DIGEST_SIZE)
        verdict == IF hash = expected.digest THEN "Valid" ELSE "Invalid"
    IN IF block_status # "Unchecked"
       THEN [st |-> IF block_status = "Invalid" /\ lvl = "Full"
                    THEN "IntegrityCheckFailed" ELSE "Ok",
             statuses |-> statuses, block_buf |-> block_buf,
             hash_read |-> FALSE]
       ELSE IF expected.st # "Ok"
       THEN [st |-> expected.st, statuses |-> statuses,
             block_buf |-> padded, hash_read |-> TRUE]
       ELSE [st |-> IF verdict = "Invalid" /\ lvl = "Full"
                    THEN "IntegrityCheckFailed" ELSE "Ok",
             statuses |-> [statuses EXCEPT ![block_index] = verdict],
             block_buf |-> padded, hash_read |-> TRUE]

\* VecStorage::write(offset, buf)
VecStorage_write(d, offset, buf) ==
    IF offset + Len(buf) > Len(d)
    THEN [st |-> "Panic", data |-> d]
    ELSE [st |-> "Ok", data |-> Overwrite(d, offset, buf)]

(***************************************************************************)
(* KeySet and the content key selection of Nca::new                        *)
(***************************************************************************)
U8_MAX == 255               \* key_generation_1, key_generation_2: u8
TITLE_KEK_COUNT == 16       \* title_kek: [Option<AesKey>; 0x10]
KEY_AREA_KEY_COUNT == 32    \* key_area_key_*: [Option<AesKey>; 0x20]

KeyAreaKeyIndex == {"Application", "Ocean", "System"}

Max(a, b) == IF a > b THEN a ELSE b

\* the outcome of a key lookup: Ok, a MissingKey error naming the key and
\* its index, a MissingTitleKey error naming the rights id, or a panic
KeyOk == [st |-> "Ok", key_name |-> "", index |-> 0]
MissingKeyError(name, index) ==
    [st |-> "MissingKey", key_name |-> name, index |-> index]
MissingTitleKeyError(rights_id) ==
    [st |-> "MissingTitleKey", key_name |-> "", index |-> rights_id]
KeyPanic == [st |-> "Panic", key_name |-> "", index |-> 0]

\* AllNcaHeaders::has_rights_id
has_rights_id(hdr) == hdr.rights_id # 0

\* AllNcaHeaders::master_key_revision
master_key_revision(hdr) ==
    LET generation == Max(hdr.key_generation_1, hdr.key_generation_2)
    IN IF generation = 0 THEN 0 ELSE generation - 1

\* KeySet::title_kek: indexing the array panics past its end
KeySet_title_kek(ks, revision) ==
    IF revision >= TITLE_KEK_COUNT THEN KeyPanic
    ELSE IF ks.title_kek[revision] THEN KeyOk
    ELSE MissingKeyError("title_kek", revision)

\* the name of the key array that key_area_key_index selects
key_area_key_name(key_area_key_index) ==
    CASE key_area_key_index = "Application" -> "key_area_key_application"
      [] key_area_key_index = "Ocean" -> "key_area_key_ocean"
      [] key_area_key_index = "System" -> "key_area_key_system"

\* KeySet::key_area_key: indexing the array panics past its end
KeySet_key_area_key(ks, revision, key_area_key_index) ==
    LET name == key_area_key_name(key_area_key_index)
        kek_array == ks[name]
    IN IF revision >= KEY_AREA_KEY_COUNT THEN KeyPanic
       ELSE IF kek_array[revision] THEN KeyOk
       ELSE MissingKeyError(name, revision)

\* KeySet::title_key
KeySet_title_key(ks, rights_id) ==
    IF rights_id \in ks.title_keys THEN KeyOk
    ELSE MissingTitleKeyError(rights_id)

\* KeySet::header_key
KeySet_header_key(ks) ==
    IF ks.header_key THEN KeyOk ELSE MissingKeyError("header_key", 0)

\* a lookup in the keyset: the accessor called and the rights id or the
\* revision it is called with
Lookup(name, index) == [name |-> name, index |-> index]

\* Nca::new with a choice of the content key that, for a header that needed
\* decryption, tries the key-area key first and falls back to the title key
Nca_content_key_KeyAreaFirst(ks, hdr, is_decrypted) ==
    LET kak == KeySet_key_area_key(ks, master_key_revision(hdr),
                                   hdr.key_area_key_index)
        title_key == KeySet_title_key(ks, hdr.rights_id)
    IN IF is_decrypted
       THEN [key |-> "Plaintext", lookup |-> "none", res |-> KeyOk,
             consulted |-> <<>>]
       ELSE IF kak.st = "Ok"
       THEN [key |-> "KeyArea", lookup |-> "key_area_key", res |-> KeyOk,
             consulted |-> << Lookup("key_area_key", master_key_revision(hdr)) >>]
       ELSE [key |-> IF title_key.st = "Ok" THEN "RightsId" ELSE "none",
             lookup |-> "title_key", res |-> title_key,
             consulted |-> << Lookup("key_area_key", master_key_revision(hdr)),
                              Lookup("title_key", hdr.rights_id) >>]

\* Nca::new, the choice of the content key: none for a header that parsed
\* without decryption, else the title key and title-KEK for a rights id,
\* else the key-area key; consulted are the lookups made, in order
Nca_content_key(ks, hdr, is_decrypted) ==
    IF is_decrypted
    THEN [key |-> "Plaintext", lookup |-> "none", res |-> KeyOk,
          consulted |-> <<>>]
    ELSE IF has_rights_id(hdr)
    THEN LET title_key == KeySet_title_key(ks, hdr.rights_id)
             title_kek == KeySet_title_kek(ks, master_key_revision(hdr))
             first == Lookup("title_key", hdr.rights_id)
             second == Lookup("title_kek", master_key_revision(hdr))
         IN IF title_key.st # "Ok"
            THEN [key |-> "none", lookup |-> "title_key", res |-> title_key,
                  consulted |-> <<first>>]
            ELSE IF title_kek.st # "Ok"
            THEN [key |-> "none", lookup |-> "title_kek", res |-> title_kek,
                  consulted |-> <<first, second>>]
            ELSE [key |-> "RightsId", lookup |-> "title_kek", res |-> KeyOk,
                  consulted |-> <<first, second>>]
    ELSE LET kak == KeySet_key_area_key(ks, master_key_revision(hdr),
                                        hdr.key_area_key_index)
             only == Lookup("key_area_key", master_key_revision(hdr))
         IN IF kak.st # "Ok"
            THEN [key |-> "none", lookup |-> "key_area_key", res |-> kak,
                  consulted |-> <<only>>]
            ELSE [key |-> "KeyArea", lookup |-> "key_area_key", res |-> KeyOk,
                  consulted |-> <<only>>]

\* a keyset that holds the keys of the revisions below n_kek (title-KEK)
\* and n_kak (application key-area key), and the given title keys
KeySetOf(has_header_key, n_kek, n_kak, title_keys) ==
    [header_key |-> has_header_key,
     title_kek |-> [i \in 0..(TITLE_KEK_COUNT - 1) |-> i < n_kek],
     key_area_key_application |-> [i \in 0..(KEY_AREA_KEY_COUNT - 1) |-> i < n_kak],
     key_area_key_ocean |-> [i \in 0..(KEY_AREA_KEY_COUNT - 1) |-> FALSE],
     key_area_key_system |-> [i \in 0..(KEY_AREA_KEY_COUNT - 1) |-> FALSE],
     title_keys |-> title_keys]

(***************************************************************************)
(* Nca::new on the storage of one file                                     *)
(***************************************************************************)
ALL_HEADERS_SIZE == 3072    \* 0xc00
SECTION_COUNT == 4

NcaContentType == {"Program", "Meta", "Control", "Manual", "Data", "PublicData"}

\* an NcaError; key_name and index carry the fields of the variant
NoError == [kind |-> "none", key_name |-> "", index |-> 0]
NcaError(kind, key_name, index) ==
    [kind |-> kind, key_name |-> key_name, index |-> index]

\* the NcaError that wraps a failed key lookup
KeyError(r) == NcaError(r.st, r.key_name, r.index)

\* the lowest number of a nonempty set of numbers
MinOf(S) == CHOOSE x \in S : \A y \in S : x <= y

\* Nca::parse_headers with a section loop that checks the FS header of all
\* four sections, enabled or not
Nca_parse_headers_AllSections(ks, file) ==
    LET hdr == file.hdr
        header_key == KeySet_header_key(ks)
        failing == hdr.bad_hash \cup hdr.unparsable
    IN IF file.size < ALL_HEADERS_SIZE
       THEN [st |-> "Err", err |-> NcaError("Storage", "", 0),
             is_decrypted |-> FALSE]
       ELSE IF ~hdr.plaintext /\ header_key.st # "Ok"
       THEN [st |-> "Err", err |-> KeyError(header_key), is_decrypted |-> FALSE]
       ELSE IF ~hdr.plaintext /\ ~hdr.valid
       THEN [st |-> "Err", err |-> NcaError("NcaHeaderParsing", "", 0),
             is_decrypted |-> FALSE]
       ELSE IF ~hdr.plaintext /\ hdr.magic \in {"Nca0", "Nca1"}
       THEN [st |-> "Panic", err |-> NoError, is_decrypted |-> FALSE]
       ELSE IF failing # {}
       THEN [st |-> "Err",
             err |-> NcaError(IF MinOf(failing) \in hdr.bad_hash
                              THEN "FsHeaderHashMismatch"
                              ELSE "FsHeaderParsing", "", MinOf(failing)),
             is_decrypted |-> hdr.plaintext]
       ELSE [st |-> "Ok", err |-> NoError, is_decrypted |-> hdr.plaintext]

\* Nca::parse_headers: reads the 0xc00 header bytes, decrypts them with the
\* header key unless they parse as they are, and checks the hash of the FS
\* header of every enabled section in index order
Nca_parse_headers(ks, file) ==
    LET hdr == file.hdr
        header_key == KeySet_header_key(ks)
        failing == hdr.enabled \cap (hdr.bad_hash \cup hdr.unparsable)
    IN IF file.size < ALL_HEADERS_SIZE
       THEN [st |-> "Err", err |-> NcaError("Storage", "", 0),
             is_decrypted |-> FALSE]
       ELSE IF ~hdr.plaintext /\ header_key.st # "Ok"
       THEN [st |-> "Err", err |-> KeyError(header_key), is_decrypted |-> FALSE]
       ELSE IF ~hdr.plaintext /\ ~hdr.valid
       THEN [st |-> "Err", err |-> NcaError("NcaHeaderParsing", "", 0),
             is_decrypted |-> FALSE]
       ELSE IF ~hdr.plaintext /\ hdr.magic \in {"Nca0", "Nca1"}
       THEN [st |-> "Panic", err |-> NoError, is_decrypted |-> FALSE]
       ELSE IF failing # {}
       THEN [st |-> "Err",
             err |-> NcaError(IF MinOf(failing) \in hdr.bad_hash
                              THEN "FsHeaderHashMismatch"
                              ELSE "FsHeaderParsing", "", MinOf(failing)),
             is_decrypted |-> hdr.plaintext]
       ELSE [st |-> "Ok", err |-> NoError, is_decrypted |-> hdr.plaintext]

\* Nca::new
Nca_new(ks, file) ==
    LET hdr == file.hdr
        expected_session_count == IF hdr.content_type = "Program" THEN 3 ELSE 1
        KeyChosen(content_key) ==
            IF content_key.res.st = "Panic"
            THEN [st |-> "Panic", err |-> NoError, content_key |-> "none"]
            ELSE IF content_key.res.st # "Ok"
            THEN [st |-> "Err", err |-> KeyError(content_key.res),
                  content_key |-> "none"]
            ELSE IF Cardinality(hdr.enabled) # expected_session_count
            THEN [st |-> "Panic", err |-> NoError, content_key |-> "none"]
            ELSE [st |-> "Ok", err |-> NoError, content_key |-> content_key.key]
        HeadersParsed(headers) ==
            IF headers.st # "Ok"
            THEN [st |-> headers.st, err |-> headers.err, content_key |-> "none"]
            ELSE IF hdr.nca_size # file.size
            THEN [st |-> "Err", err |-> NcaError("StorageSizeMismatch", "", 0),
                  content_key |-> "none"]
            ELSE TheOnly({KeyChosen(content_key) :
                    content_key \in
                        {Nca_content_key(ks, hdr, headers.is_decrypted)}})
    IN TheOnly({HeadersParsed(headers) :
                    headers \in {Nca_parse_headers(ks, file)}})

(***************************************************************************)
(* Ticket import and the NCA set                                           *)
(***************************************************************************)
\* an error of the aggregator: its variant, the content id it names and the
\* error it wraps
NoAggError == [kind |-> "none", id |-> 0, source |-> NoError]
AggError(kind, id, source) == [kind |-> kind, id |-> id, source |-> source]

\* BTreeMap::insert
MapInsert(map, k, v) ==
    [x \in (DOMAIN map) \cup {k} |-> IF x = k THEN v ELSE map[x]]

\* Ticket::title_key and KeySet::import_ticket, then the rest of the .tik
\* files in walk order (try_for_each)
RECURSIVE import_tickets(_, _)
import_tickets(ks, files) ==
    IF files = <<>> THEN [st |-> "Ok", err |-> NoAggError, key_set |-> ks]
    ELSE LET file == Head(files)
         IN IF file.suffix # "tik" THEN import_tickets(ks, Tail(files))
            ELSE IF ~file.ticket.parses
            THEN [st |-> "Err",
                  err |-> AggError("ParseTicketFile", 0, NoError),
                  key_set |-> ks]
            ELSE IF file.ticket.title_key_type = "Personalized"
            THEN [st |-> "Panic", err |-> NoAggError, key_set |-> ks]
            ELSE import_tickets(
                    [ks EXCEPT !.title_keys = @ \cup {file.ticket.rights_id}],
                    Tail(files))

\* the loop of nca_set_from_fs over the files in walk order; ncas is the
\* map built so far and log the ids announced by info!("Parsing NCA {}")
RECURSIVE nca_set_from_fs_SkipFailed(_, _, _, _)
nca_set_from_fs_SkipFailed(ks, files, ncas, log) ==
    IF files = <<>>
    THEN [st |-> "Ok", err |-> NoAggError, ncas |-> ncas, log |-> log]
    ELSE LET file == Head(files)
             nca == Nca_new(ks, file)
         IN IF file.suffix \notin {"nca", "cnmt.nca"}
            THEN nca_set_from_fs_SkipFailed(ks, Tail(files), ncas, log)
            ELSE IF file.stem = 0
            THEN [st |-> "Err", err |-> AggError("NcaFilenameParse", 0, NoError),
                  ncas |-> <<>>, log |-> log]
            ELSE IF nca.st = "Panic"
            THEN [st |-> "Panic", err |-> NoAggError, ncas |-> <<>>,
                  log |-> Append(log, file.stem)]
            ELSE IF nca.st = "Err"
            THEN nca_set_from_fs_SkipFailed(ks, Tail(files), ncas,
                                            Append(log, file.stem))
            ELSE nca_set_from_fs_SkipFailed(ks, Tail(files),
                    MapInsert(ncas, file.stem,
                              [hdr |-> file.hdr, content_key |-> nca.content_key]),
                    Append(log, file.stem))

RECURSIVE nca_set_from_fs_loop(_, _, _, _)
nca_set_from_fs_loop(ks, files, ncas, log) ==
    IF files = <<>>
    THEN [st |-> "Ok", err |-> NoAggError, ncas |-> ncas, log |-> log]
    ELSE LET file == Head(files)
             Constructed(nca) ==
                IF nca.st = "Panic"
                THEN [st |-> "Panic", err |-> NoAggError, ncas |-> <<>>,
                      log |-> Append(log, file.stem)]
                ELSE IF nca.st = "Err"
                THEN [st |-> "Err",
                      err |-> AggError("NcaParse", file.stem, nca.err),
                      ncas |-> <<>>, log |-> Append(log, file.stem)]
                ELSE nca_set_from_fs_loop(ks, Tail(files),
                        MapInsert(ncas, file.stem,
                                  [hdr |-> file.hdr,
                                   content_key |-> nca.content_key]),
                        Append(log, file.stem))
         IN IF file.suffix \notin {"nca", "cnmt.nca"}
            THEN nca_set_from_fs_loop(ks, Tail(files), ncas, log)
            ELSE IF file.stem = 0
            THEN [st |-> "Err", err |-> AggError("NcaFilenameParse", 0, NoError),
                  ncas |-> <<>>, log |-> log]
            ELSE TheOnly({Constructed(nca) : nca \in {Nca_new(ks, file)}})

nca_set_from_fs(ks, files) == nca_set_from_fs_loop(ks, files, <<>>, <<>>)

(***************************************************************************)
(* The content set: parse_content, parse_programs, content_set_from_nca_set*)
(***************************************************************************)
UnsupportedMetaTypes ==
    {"SystemProgram", "SystemData", "SystemUpdate", "BootImagePackage",
     "BootImagePackageSafe", "Delta"}

\* a ContentParseError: its variant, the content id or program it names and
\* the variant of the error it wraps
NoContentError == [kind |-> "none", id |-> 0, source |-> "none"]
ContentError(kind, id, source) == [kind |-> kind, id |-> id, source |-> source]

\* Nca::get_section_type
get_section_type(nca, index) ==
    IF nca.hdr.content_type = "Program"
    THEN CASE index = 0 -> "Code" [] index = 1 -> "Data" [] index = 2 -> "Logo"
           [] OTHER -> "None"
    ELSE IF index = 0 THEN "Data" ELSE "None"

\* Nca::get_fs: the file system of the first section of the wanted type,
\* when that section is enabled
has_fs(nca, section_type) ==
    LET indexes == {i \in 0..3 : get_section_type(nca, i) = section_type}
    IN indexes # {} /\ MinOf(indexes) \in nca.hdr.enabled

\* Nca::get_fs: the index of the section it resolves to, and whether it
\* returns a file system (get_raw_encrypted_section_storage returns None
\* for a section that is not enabled)
Nca_get_fs(nca, section_type) ==
    LET indexes == {i \in 0..(SECTION_COUNT - 1) :
                        get_section_type(nca, i) = section_type}
    IN IF indexes = {} THEN [index |-> 0 - 1, some |-> FALSE]
       ELSE [index |-> MinOf(indexes),
             some |-> MinOf(indexes) \in nca.hdr.enabled]

\* find_content_of_type
find_content_of_type(meta, content_type) ==
    LET found == {i \in 1..Len(meta.content_info) :
                      meta.content_info[i].ty = content_type}
    IN IF found = {} THEN 0 ELSE meta.content_info[MinOf(found)].id

\* read_control
read_control(nca) ==
    IF ~has_fs(nca, "Data") THEN "NoDataSection"
    ELSE IF nca.hdr.nacp = "missing" THEN "NoControlNacp"
    ELSE IF nca.hdr.nacp = "unparsable" THEN "ControlNacpParse"
    ELSE "Ok"

\* the last content of the given type at id_offset (a later entry replaces
\* an earlier one in the builder), 0 when there is none
builder_content(meta, id_offset, content_type) ==
    LET found == {i \in 1..Len(meta.content_info) :
                      /\ meta.content_info[i].id_offset = id_offset
                      /\ meta.content_info[i].ty = content_type}
    IN IF found = {} THEN 0
       ELSE meta.content_info[CHOOSE i \in found : \A j \in found : j <= i].id

\* Option::None of an id
NoId == 0 - 1

\* ProgramId::new(id, id_offset): the id with its low byte replaced by
\* id_offset, (id & ~0xff) | id_offset
ProgramId_new(id, id_offset) == (id - (id % 256)) + id_offset

\* ProgramInfoBuilder::build for the builders of the id offsets in offsets, in
\* ascending order of the program id
RECURSIVE build_programs(_, _, _, _)
build_programs(meta, nca_set, offsets, programs) ==
    IF offsets = {}
    THEN [st |-> "Ok", err |-> NoContentError, programs |-> programs]
    ELSE LET id_offset == MinOf(offsets)
             program_content == builder_content(meta, id_offset, "Program")
             control_content == builder_content(meta, id_offset, "Control")
             control == read_control(nca_set[control_content])
         IN IF program_content = 0
            THEN [st |-> "Err", programs |-> <<>>,
                  err |-> ContentError("ProgramsParse", id_offset,
                                       "MissingProgramContent")]
            ELSE IF control_content = 0
            THEN [st |-> "Err", programs |-> <<>>,
                  err |-> ContentError("ProgramsParse", id_offset,
                                       "MissingControlContent")]
            ELSE IF control_content \notin DOMAIN nca_set
            THEN [st |-> "Panic", programs |-> <<>>, err |-> NoContentError]
            ELSE IF control # "Ok"
            THEN [st |-> "Err", programs |-> <<>>,
                  err |-> ContentError("ProgramsParse", id_offset, control)]
            ELSE build_programs(meta, nca_set, offsets \ {id_offset},
                    Append(programs,
                           [id_offset |-> id_offset,
                            id |-> ProgramId_new(meta.id, id_offset),
                            base_program_id |->
                                IF meta.ty = "Patch"
                                THEN ProgramId_new(meta.application_id,
                                                   id_offset)
                                ELSE NoId,
                            program_content_id |-> program_content,
                            control_content_id |-> control_content,
                            html_document_content_id |->
                                builder_content(meta, id_offset, "HtmlDocument")]))

\* parse_programs with builders only for the id offsets of the Program,
\* Control and HtmlDocument entries
parse_programs_OfProgramEntries(meta, nca_set) ==
    build_programs(meta, nca_set,
                   {meta.content_info[i].id_offset :
                        i \in {j \in 1..Len(meta.content_info) :
                                  meta.content_info[j].ty
                                      \in {"Program", "Control",
                                           "HtmlDocument"}}},
                   <<>>)

\* parse_programs: one builder per id_offset of the content_info entries
parse_programs(meta, nca_set) ==
    build_programs(meta, nca_set,
                   {meta.content_info[i].id_offset :
                        i \in 1..Len(meta.content_info)},
                   <<>>)

\* parse_content
parse_content(meta_content_id, meta_nca, nca_set) ==
    LET cnmts == meta_nca.hdr.cnmts
        meta == cnmts[1]
        nca_ids == {i \in 1..Len(meta.content_info) :
                        meta.content_info[i].ty # "DeltaFragment"}
        missing == {i \in nca_ids : meta.content_info[i].id \notin DOMAIN nca_set}
        programs == parse_programs(meta, nca_set)
        legal_information_content ==
            find_content_of_type(meta, "LegalInformation")
        data_content == find_content_of_type(meta, "Data")
        Fail(kind, id) == [st |-> "Err", err |-> ContentError(kind, id, "none"),
                           key |-> 0, content |-> 0]
        key == [id |-> meta.id, version |-> meta.version, ty |-> meta.ty]
    IN IF ~has_fs(meta_nca, "Data") THEN Fail("MetaNoDataSection", 0)
       ELSE IF Len(cnmts) = 0 THEN Fail("MetaNoCnmt", 0)
       ELSE IF Len(cnmts) > 1 THEN Fail("MetaMultipleCnmt", 0)
       ELSE IF missing # {}
       THEN Fail("MissingNca", meta.content_info[MinOf(missing)].id)
       ELSE IF meta.ty \in UnsupportedMetaTypes
       THEN [st |-> "Err", key |-> 0, content |-> 0,
             err |-> ContentError("MetaUnsupportedType", 0, meta.ty)]
       ELSE IF meta.ty \in {"Application", "Patch"}
       THEN IF programs.st = "Panic"
            THEN [st |-> "Panic", err |-> NoContentError, key |-> 0,
                  content |-> 0]
            ELSE IF programs.st # "Ok"
            THEN [st |-> "Err", err |-> programs.err, key |-> 0, content |-> 0]
            ELSE IF legal_information_content = 0
            THEN Fail("MissingLegalInformationNca", 0)
            ELSE [st |-> "Ok", err |-> NoContentError, key |-> key,
                  content |-> [ty |-> meta.ty, id |-> meta.id,
                               version |-> meta.version,
                               application_id |->
                                   IF meta.ty = "Patch"
                                   THEN meta.application_id ELSE NoId,
                               programs |-> programs.programs,
                               content |-> legal_information_content,
                               meta_content_id |-> meta_content_id]]
       ELSE IF meta.ty = "AddOnContent"
       THEN IF data_content = 0 THEN Fail("MissingDataNca", 0)
            ELSE [st |-> "Ok", err |-> NoContentError, key |-> key,
                  content |-> [ty |-> meta.ty, id |-> meta.id,
                               version |-> meta.version,
                               application_id |-> meta.application_id,
                               programs |-> <<>>, content |-> data_content,
                               meta_content_id |-> meta_content_id]]
       ELSE [st |-> "Panic", err |-> NoContentError, key |-> 0, content |-> 0]

\* the loop of content_set_from_nca_set over the NCA set in ascending order
\* of the content id; ids are the ids still to visit
RECURSIVE content_set_from_nca_set_loop(_, _, _)
content_set_from_nca_set_loop(ncas, ids, titles) ==
    IF ids = {} THEN [st |-> "Ok", err |-> NoAggError, titles |-> titles]
    ELSE LET id == MinOf(ids)
             content == parse_content(id, ncas[id], ncas)
         IN IF ncas[id].hdr.content_type # "Meta"
            THEN content_set_from_nca_set_loop(ncas, ids \ {id}, titles)
            ELSE IF content.st = "Panic"
            THEN [st |-> "Panic", err |-> NoAggError, titles |-> <<>>]
            ELSE IF content.st = "Err"
            THEN [st |-> "Err", titles |-> <<>>,
                  err |-> [kind |-> "ContentSetParse", id |-> id,
                           source |-> content.err]]
            ELSE content_set_from_nca_set_loop(ncas, ids \ {id},
                    MapInsert(titles, content.key, content.content))

content_set_from_nca_set(ncas) ==
    content_set_from_nca_set_loop(ncas, DOMAIN ncas, <<>>)

(***************************************************************************)
(* The application set                                                     *)
(***************************************************************************)
\* ContentMetaType as the u8 it is declared with, which orders the keys
ContentMetaTypeValue(meta_ty) ==
    IF meta_ty = "Application" THEN 128
    ELSE IF meta_ty = "Patch" THEN 129
    ELSE IF meta_ty = "AddOnContent" THEN 130
    ELSE 0

\* the derived Ord of ContentMetaKey: by id, then version, then type
ContentMetaKeyLess(a, b) ==
    \/ a.id < b.id
    \/ /\ a.id = b.id
       /\ \/ a.version < b.version
          \/ /\ a.version = b.version
             /\ ContentMetaTypeValue(a.ty) < ContentMetaTypeValue(b.ty)

\* BTreeMap::values of the content set: its contents in ascending order of
\* their keys
RECURSIVE content_set_values(_, _)
content_set_values(content_set, keys) ==
    IF keys = {} THEN <<>>
    ELSE LET first == CHOOSE k \in keys :
                          \A o \in keys \ {k} : ContentMetaKeyLess(k, o)
         IN <<content_set[first]>>
                \o content_set_values(content_set, keys \ {first})

\* make_programs giving every program of a patch the content id of the
\* first program of the base version
make_programs_FirstBaseProgram(programs, is_patch, base_programs) ==
    [st |-> IF is_patch /\ base_programs = <<>> THEN "Panic" ELSE "Ok",
     programs |->
        [id \in {programs[i].id : i \in DOMAIN programs} |->
            [id |-> id,
             base_content_id |->
                 IF is_patch /\ base_programs # <<>>
                 THEN base_programs[MinOf(DOMAIN base_programs)].content_id
                 ELSE NoId,
             content_id |->
                 programs[CHOOSE i \in DOMAIN programs :
                              programs[i].id = id].program_content_id,
             html_document_content_id |-> 0,
             control_content_id |-> 0]]]

\* make_programs: the programs of a version keyed by their id; those of a
\* patch take base_content_id from the program of the base version that
\* base_program_id names, and the lookup aborts when there is none
make_programs(programs, is_patch, base_programs) ==
    LET unbased == {i \in DOMAIN programs :
                        \/ programs[i].base_program_id = NoId
                        \/ programs[i].base_program_id
                               \notin DOMAIN base_programs}
        Of(id) == programs[CHOOSE i \in DOMAIN programs :
                               /\ programs[i].id = id
                               /\ \A j \in DOMAIN programs :
                                      programs[j].id = id => j <= i]
        Made(pi) ==
            [id |-> pi.id,
             base_content_id |->
                 IF is_patch THEN base_programs[pi.base_program_id].content_id
                 ELSE NoId,
             content_id |-> pi.program_content_id,
             html_document_content_id |-> pi.html_document_content_id,
             control_content_id |-> pi.control_content_id]
    IN IF is_patch /\ unbased # {}
       THEN [st |-> "Panic", programs |-> <<>>]
       ELSE [st |-> "Ok",
             programs |-> [id \in {programs[i].id : i \in DOMAIN programs}
                               |-> Made(Of(id))]]

\* the first loop of build_application_set: one Application with its base
\* version per Application meta; inserting a second one under the same id
\* fails the assertion
RECURSIVE build_applications(_, _)
build_applications(values, applications) ==
    IF values = <<>> THEN [st |-> "Ok", applications |-> applications]
    ELSE LET app == Head(values)
             app_version ==
                 [version |-> app.version, kind |-> "Base",
                  meta_content_id |-> app.meta_content_id,
                  programs |-> make_programs(app.programs, FALSE, <<>>).programs]
             application ==
                 [id |-> app.id, base_version |-> app.version,
                  versions |-> MapInsert(<<>>, app.version, app_version),
                  addons |-> <<>>]
         IN IF app.ty # "Application"
            THEN build_applications(Tail(values), applications)
            ELSE IF app.id \in DOMAIN applications
            THEN [st |-> "Panic", applications |-> <<>>]
            ELSE build_applications(Tail(values),
                    MapInsert(applications, app.id, application))

\* the second loop of build_application_set: every Patch and add-on Data is
\* attached to the application its application_id names, or skipped with a
\* warning when there is none
RECURSIVE attach_to_applications(_, _, _)
attach_to_applications(values, applications, skipped) ==
    IF values = <<>>
    THEN [st |-> "Ok", applications |-> applications, skipped |-> skipped]
    ELSE LET content == Head(values)
             Aborted == [st |-> "Panic", applications |-> <<>>,
                         skipped |-> skipped]
             Skipped == attach_to_applications(Tail(values), applications,
                            skipped \cup {content.meta_content_id})
             Patched(app, programs) ==
                 IF programs.st = "Panic" THEN Aborted
                 ELSE IF content.version \in DOMAIN app.versions THEN Aborted
                 ELSE attach_to_applications(Tail(values),
                        MapInsert(applications, app.id,
                            [app EXCEPT !.versions =
                                MapInsert(@, content.version,
                                    [version |-> content.version,
                                     kind |-> "Patch",
                                     meta_content_id |-> content.meta_content_id,
                                     programs |-> programs.programs])]),
                        skipped)
             Added(app) ==
                 IF content.id \in DOMAIN app.addons THEN Aborted
                 ELSE attach_to_applications(Tail(values),
                        MapInsert(applications, app.id,
                            [app EXCEPT !.addons =
                                MapInsert(@, content.id,
                                    [id |-> content.id,
                                     version |-> content.version,
                                     content_id |-> content.content])]),
                        skipped)
         IN IF content.ty = "Patch"
            THEN IF content.application_id \notin DOMAIN applications
                 THEN Skipped
                 ELSE IF applications[content.application_id].base_version
                           \notin DOMAIN
                               applications[content.application_id].versions
                 THEN Aborted
                 ELSE TheOnly({Patched(applications[content.application_id],
                                       programs) :
                        programs \in {make_programs(content.programs, TRUE,
                            applications[content.application_id].versions[
                                applications[content.application_id]
                                    .base_version].programs)}})
            ELSE IF content.ty = "AddOnContent"
            THEN IF content.application_id \notin DOMAIN applications
                 THEN Skipped
                 ELSE Added(applications[content.application_id])
            ELSE attach_to_applications(Tail(values), applications, skipped)

\* build_application_set in one pass over the content set: a patch or
\* add-on listed before its application finds no application to attach to
RECURSIVE attach_in_one_pass(_, _, _)
attach_in_one_pass(values, applications, skipped) ==
    IF values = <<>>
    THEN [st |-> "Ok", applications |-> applications, skipped |-> skipped]
    ELSE TheOnly({
            IF first.st = "Panic"
            THEN [st |-> "Panic", applications |-> <<>>, skipped |-> skipped]
            ELSE attach_in_one_pass(Tail(values), first.applications,
                                    first.skipped) :
            first \in
              {IF Head(values).ty = "Application"
               THEN TheOnly({[st |-> made.st, applications |-> made.applications,
                              skipped |-> skipped] :
                        made \in {build_applications(<<Head(values)>>,
                                                     applications)}})
               ELSE attach_to_applications(<<Head(values)>>, applications,
                                           skipped)}})

build_application_set_OnePass(content_set) ==
    attach_in_one_pass(content_set_values(content_set, DOMAIN content_set),
                       <<>>, {})

\* build_application_set(content_set)
build_application_set(content_set) ==
    LET Attached(values, built) ==
            IF built.st = "Panic"
            THEN [st |-> "Panic", applications |-> <<>>, skipped |-> {}]
            ELSE attach_to_applications(values, built.applications, {})
        Built(values) ==
            TheOnly({Attached(values, built) :
                        built \in {build_applications(values, <<>>)}})
    IN TheOnly({Built(values) :
                    values \in {content_set_values(content_set,
                                                   DOMAIN content_set)}})

\* SwitchFs::new with the NCA set built from the keyset as it was handed in,
\* before any ticket is imported
SwitchFs_new_NcasFirst(ks, files) ==
    LET tickets == import_tickets(ks, files)
        nca_set == nca_set_from_fs(ks, files)
        title_set == content_set_from_nca_set(nca_set.ncas)
        Fail(st, kind, source) ==
            [st |-> st, err |-> [kind |-> kind, source |-> source],
             nca_set |-> <<>>, title_set |-> <<>>, log |-> <<>>]
    IN IF nca_set.st # "Ok"
       THEN [Fail(nca_set.st, "NcaSetParse", nca_set.err)
                EXCEPT !.log = nca_set.log]
       ELSE IF tickets.st # "Ok"
       THEN Fail(tickets.st, "TicketImport", tickets.err)
       ELSE IF title_set.st # "Ok"
       THEN [Fail(title_set.st, "TitleSetParse", title_set.err)
                EXCEPT !.log = nca_set.log]
       ELSE [st |-> "Ok", err |-> [kind |-> "none", source |-> NoAggError],
             nca_set |-> nca_set.ncas, title_set |-> title_set.titles,
             log |-> nca_set.log]

\* SwitchFs::new
SwitchFs_new(ks, files) ==
    LET Fail(st, kind, source) ==
            [st |-> st, err |-> [kind |-> kind, source |-> source],
             nca_set |-> <<>>, title_set |-> <<>>, log |-> <<>>]
        TitleSetBuilt(nca_set, title_set) ==
            IF title_set.st # "Ok"
            THEN [Fail(title_set.st, "TitleSetParse", title_set.err)
                     EXCEPT !.log = nca_set.log]
            ELSE [st |-> "Ok", err |-> [kind |-> "none", source |-> NoAggError],
                  nca_set |-> nca_set.ncas, title_set |-> title_set.titles,
                  log |-> nca_set.log]
        NcaSetBuilt(nca_set) ==
            IF nca_set.st # "Ok"
            THEN [Fail(nca_set.st, "NcaSetParse", nca_set.err)
                     EXCEPT !.log = nca_set.log]
            ELSE TheOnly({TitleSetBuilt(nca_set, title_set) :
                    title_set \in {content_set_from_nca_set(nca_set.ncas)}})
        TicketsImported(tickets) ==
            IF tickets.st # "Ok"
            THEN Fail(tickets.st, "TicketImport", tickets.err)
            ELSE TheOnly({NcaSetBuilt(nca_set) :
                    nca_set \in {nca_set_from_fs(tickets.key_set, files)}})
    IN TheOnly({TicketsImported(tickets) :
                    tickets \in {import_tickets(ks, files)}})

(***************************************************************************)
(* StreamingZstdStorage: RoIoStorage over a FakeSeek over the Zstd decoder *)
(* of a compressed stream.  d is the fully decompressed stream; the        *)
(* decoder hands it out front to back, io being how far it has got.        *)
(***************************************************************************)
NCA_HEADERS_SIZE == 16384
SEEK_BUFFER_SIZE == 4096

\* zstd::Decoder::read: the next bytes of the stream, 0 at its end
Decoder_read(z, d, len) == Min(len, Len(d) - z.io)

\* FakeSeek::reset: a new decoder at the start of the compressed storage
FakeSeek_reset(z) ==
    [z EXCEPT !.io = 0, !.position = 0, !.resets = z.resets + 1]

\* the fast-forward loop of FakeSeek::seek
RECURSIVE FakeSeek_fast_forward(_, _, _)
FakeSeek_fast_forward(z, d, fast_forward_bytes) ==
    IF fast_forward_bytes = 0
    THEN [st |-> "Ok", z |-> z]
    ELSE LET read_size == Min(fast_forward_bytes, SEEK_BUFFER_SIZE)
             read == Decoder_read(z, d, read_size)
         IN IF read = 0
            THEN [st |-> "Panic", z |-> z]
            ELSE FakeSeek_fast_forward(
                    [z EXCEPT !.io = z.io + read,
                              !.position = z.position + read],
                    d, fast_forward_bytes - read)

\* FakeSeek::seek(SeekFrom::Start(new_position))
FakeSeek_seek(z, d, new_position) ==
    IF new_position > z.size
    THEN [st |-> "Io", z |-> z]
    ELSE LET z1 == IF new_position < z.position THEN FakeSeek_reset(z) ELSE z
         IN FakeSeek_fast_forward(z1, d, new_position - z1.position)

\* Read::read_exact over FakeSeek::read
FakeSeek_read_exact(z, d, buf) ==
    LET read == Decoder_read(z, d, Len(buf))
        z1 == [z EXCEPT !.io = z.io + read, !.position = z.position + read]
    IN IF read < Len(buf)
       THEN [st |-> "Io", z |-> z1,
             buf |-> Overwrite(buf, 0, Slice(d, z.io, read))]
       ELSE [st |-> "Ok", z |-> z1, buf |-> Slice(d, z.io, read)]

\* RoIoStorage::read, which is StreamingZstdStorage::read
StreamingZstdStorage_read(z, d, offset, buf) ==
    IF offset + Len(buf) > z.size
    THEN [st |-> "OutOfBounds", z |-> z, buf |-> buf]
    ELSE TheOnly({IF sk.st # "Ok"
                  THEN [st |-> sk.st, z |-> sk.z, buf |-> buf]
                  ELSE FakeSeek_read_exact(sk.z, d, buf) :
                        sk \in {FakeSeek_seek(z, d, offset)}})

StreamingZstdStorage_get_size(z) == z.size

(***************************************************************************)
(* NczBodyStorage::Streaming: make_cache around a StreamingZstdStorage     *)
(***************************************************************************)
\* BlockAdapterStorage::read_block over the stream
NczBlockAdapter_read_block(z, d, bs, block_index, buf) ==
    IF Len(buf) # bs
    THEN [st |-> "Panic", z |-> z, buf |-> buf]
    ELSE StreamingZstdStorage_read(z, d, block_index * bs, buf)

\* BlockCacheStorage::read_block over that block adapter
NczBlockCache_read_block(z, d, bs, c, block_index, buf) ==
    LET size == StreamingZstdStorage_get_size(z) IN
    IF block_index >= block_count(size, bs)
    THEN [st |-> "Panic", z |-> z, buf |-> buf, cache |-> c]
    ELSE LET bsz == nth_block_size(size, bs, block_index) IN
         IF bsz > Len(buf)
         THEN [st |-> "Panic", z |-> z, buf |-> buf, cache |-> c]
         ELSE IF c[block_index].present
         THEN [st |-> "Ok", z |-> z,
               buf |-> Overwrite(buf, 0, c[block_index].content),
               cache |-> c]
         ELSE TheOnly({
                IF r.st # "Ok"
                THEN [st |-> r.st, z |-> r.z, buf |-> buf, cache |-> c]
                ELSE [st |-> "Ok", z |-> r.z,
                      buf |-> Overwrite(buf, 0, r.buf),
                      cache |-> [c EXCEPT ![block_index] = Entry(r.buf)]] :
                    r \in {NczBlockAdapter_read_block(z, d, bs, block_index,
                                                      Slice(buf, 0, bsz))}})

\* ReadableBlockStorage::read_block_bulk, the default the cache inherits
RECURSIVE NczBlockCache_read_block_bulk(_, _, _, _, _, _, _)
NczBlockCache_read_block_bulk(z, d, bs, c, block_index, buf, i) ==
    IF i >= DivCeil(Len(buf), bs)
    THEN [st |-> "Ok", z |-> z, buf |-> buf, cache |-> c]
    ELSE LET read_size == Min(bs, Len(buf) - i * bs)
         IN TheOnly({
                IF r.st # "Ok"
                THEN [st |-> r.st, z |-> r.z, buf |-> buf, cache |-> r.cache]
                ELSE NczBlockCache_read_block_bulk(r.z, d, bs, r.cache,
                        block_index, Overwrite(buf, i * bs, r.buf), i + 1) :
                    r \in {NczBlockCache_read_block(z, d, bs, c,
                                block_index + i,
                                Slice(buf, i * bs, read_size))}})

\* LinearAdapterStorage::read over that cache: the head of the first block,
\* the whole blocks of the body, the start of the last block
NczLinearAdapter_read(z, d, bs, c, offset, buf) ==
    LET block_buffer == [i \in 1..bs |-> 0]
        head_block_offset == offset % bs
        head_block_size == IF head_block_offset # 0
                           THEN Min(bs - head_block_offset, Len(buf))
                           ELSE 0
        offset1 == offset + head_block_size
        body_block_count == (Len(buf) - head_block_size) \div bs
        read_so_far == head_block_size + body_block_count * bs
        offset2 == offset1 + body_block_count * bs
        tail_len == Len(buf) - read_so_far
        Tail_read(head, body, buf2) ==
            IF tail_len = 0
            THEN [st |-> "Ok", z |-> body.z, buf |-> buf2, cache |-> body.cache]
            ELSE TheOnly({
                    IF tail.st # "Ok"
                    THEN [st |-> tail.st, z |-> tail.z, buf |-> buf2,
                          cache |-> tail.cache]
                    ELSE [st |-> "Ok", z |-> tail.z,
                          buf |-> Overwrite(buf2, read_so_far,
                                            Slice(tail.buf, 0, tail_len)),
                          cache |-> tail.cache] :
                        tail \in {NczBlockCache_read_block(body.z, d, bs,
                                    body.cache, offset2 \div bs, head.buf)}})
        Body_read(head, buf1) ==
            TheOnly({
                IF body.st # "Ok"
                THEN [st |-> body.st, z |-> body.z, buf |-> buf1,
                      cache |-> body.cache]
                ELSE Tail_read(head, body,
                               Overwrite(buf1, head_block_size, body.buf)) :
                    body \in {NczBlockCache_read_block_bulk(head.z, d, bs,
                                head.cache, offset1 \div bs,
                                Slice(buf1, head_block_size,
                                      body_block_count * bs), 0)}})
        Head_read(head) ==
            IF head.st # "Ok"
            THEN [st |-> head.st, z |-> head.z, buf |-> buf,
                  cache |-> head.cache]
            ELSE Body_read(head,
                    Overwrite(buf, 0, Slice(head.buf, head_block_offset,
                                            head_block_size)))
    IN TheOnly({Head_read(head) :
            head \in {IF head_block_offset # 0
                      THEN NczBlockCache_read_block(z, d, bs, c,
                                                    offset \div bs, block_buffer)
                      ELSE [st |-> "Ok", z |-> z, buf |-> block_buffer,
                            cache |-> c]}})

\* NczBodyStorage::read: the first NCA_HEADERS_SIZE bytes are unreadable
\* NczBodyStorage::read handing the offset on as it came
NczBodyStorage_read_Unshifted(z, d, bs, c, offset, buf) ==
    IF offset < NCA_HEADERS_SIZE
    THEN [st |-> "Inaccessible", offset |-> offset, z |-> z, buf |-> buf,
          cache |-> c]
    ELSE TheOnly({[st |-> r.st, offset |-> NoId, z |-> r.z, buf |-> r.buf,
                   cache |-> r.cache] :
                    r \in {NczLinearAdapter_read(z, d, bs, c, offset, buf)}})

\* offset: the offset that StorageError::Inaccessible carries
NczBodyStorage_read(z, d, bs, c, offset, buf) ==
    IF offset < NCA_HEADERS_SIZE
    THEN [st |-> "Inaccessible", offset |-> offset, z |-> z, buf |-> buf,
          cache |-> c]
    ELSE TheOnly({[st |-> r.st, offset |-> NoId, z |-> r.z, buf |-> r.buf,
                   cache |-> r.cache] :
                    r \in {NczLinearAdapter_read(z, d, bs, c,
                                                 offset - NCA_HEADERS_SIZE,
                                                 buf)}})

NczBodyStorage_get_size(z) == StreamingZstdStorage_get_size(z) + NCA_HEADERS_SIZE

(***************************************************************************)
(* RwIoStorage over an IO object that is Read + Write + Seek (a File): the *)
(* cursor may be set anywhere, a read past the end of the object comes up  *)
(* short, a write past its end extends it and zero-fills the gap           *)
(***************************************************************************)
\* the bytes write(offset, buf) is called with: no storage holds them yet
WrittenBytes(offset, len) == [i \in 1..len |-> 100 + offset + i]

\* Seek::seek(SeekFrom::End(0)) followed by seek(SeekFrom::Start(0))
RwIoStorage_new(bytes) == [io |-> bytes, pos |-> 0, size |-> Len(bytes)]

\* RwIoStorageInner::check_size
RwIoStorage_check_size(inner, offset, len) == offset + len <= inner.size

\* Read::read_exact at the cursor: UnexpectedEof when the object runs out
Io_read_exact(inner, buf) ==
    LET avail == IF inner.pos < Len(inner.io)
                 THEN Min(Len(buf), Len(inner.io) - inner.pos)
                 ELSE 0
        got == Overwrite(buf, 0, Slice(inner.io, inner.pos, avail))
    IN [st |-> IF avail < Len(buf) THEN "Io" ELSE "Ok",
        inner |-> [inner EXCEPT !.pos = inner.pos + avail],
        buf |-> got]

\* Write::write_all at the cursor
Io_write_all(inner, buf) ==
    LET end == inner.pos + Len(buf)
        len == IF Len(buf) = 0 THEN Len(inner.io) ELSE Max(Len(inner.io), end)
        grown == [i \in 1..len |-> IF i <= Len(inner.io) THEN inner.io[i]
                                   ELSE 0]
    IN [inner EXCEPT !.io = Overwrite(grown, inner.pos, buf), !.pos = end]

RwIoStorage_read(inner, offset, buf) ==
    IF ~RwIoStorage_check_size(inner, offset, Len(buf))
    THEN [st |-> "OutOfBounds", inner |-> inner, buf |-> buf]
    ELSE Io_read_exact([inner EXCEPT !.pos = offset], buf)

RwIoStorage_get_size(inner) == inner.size

RwIoStorage_write(inner, offset, buf) ==
    IF ~RwIoStorage_check_size(inner, offset, Len(buf))
    THEN [st |-> "OutOfBounds", inner |-> inner]
    ELSE [st |-> "Ok",
          inner |-> Io_write_all([inner EXCEPT !.pos = offset], buf)]

\* seeks to new_size ("at least try to expand the file") and records it
RwIoStorage_set_size(inner, new_size) ==
    [st |-> "Ok", inner |-> [inner EXCEPT !.pos = new_size, !.size = new_size]]

(***************************************************************************)
(* SliceStorage over a VecStorage.  offset + size and offset + buf.len()   *)
(* are u64 additions: past MaxWord they panic in a build with overflow     *)
(* checks and wrap around in a build without                               *)
(***************************************************************************)
U64_add(a, b, overflow_checks) ==
    IF a + b > MaxWord /\ overflow_checks
    THEN [st |-> "Panic", v |-> 0]
    ELSE [st |-> "Ok", v |-> (a + b) % (MaxWord + 1)]

SliceStorage_new(d, offset, size, overflow_checks) ==
    LET bounds == VecStorage_get_size(d)
        end == U64_add(offset, size, overflow_checks)
        made(st) == [st |-> st, offset |-> offset, size |-> size,
                     overflow_checks |-> overflow_checks]
    IN IF offset > bounds THEN made("OffsetOutOfBounds")
       ELSE IF end.st # "Ok" THEN made("Panic")
       ELSE IF end.v > bounds THEN made("SizeOutOfBounds")
       ELSE made("Ok")

\* inner: the offsets at which the read called the inner storage
SliceStorage_read(sl, d, offset, buf) ==
    LET end == U64_add(offset, Len(buf), sl.overflow_checks)
        at == U64_add(sl.offset, offset, sl.overflow_checks)
        r == VecStorage_read(d, at.v, buf)
    IN IF end.st # "Ok"
       THEN [st |-> "Panic", buf |-> buf, inner |-> <<>>]
       ELSE IF end.v > sl.size
       THEN [st |-> "OutOfBounds", buf |-> buf, inner |-> <<>>]
       ELSE IF at.st # "Ok"
       THEN [st |-> "Panic", buf |-> buf, inner |-> <<>>]
       ELSE [st |-> r.st, buf |-> r.buf, inner |-> <<at.v>>]

SliceStorage_get_size(sl) == sl.size

(***************************************************************************)
(* Idle values of each subsystem                                           *)
(***************************************************************************)
NoRes == [op |-> "none", kind |-> "none", arg |-> 0, len |-> 0,
          st |-> "none", buf |-> <<>>, inner |-> <<>>]

AdapterIdle ==
    /\ data = <<>>
    /\ block_size = 1
    /\ cache = <<>>
    /\ res = NoRes

ConcatIdle ==
    /\ storages = <<>>
    /\ cres = NoRes

NoKeyRes == [rights_id |-> 0, key_generation_1 |-> 0, key_generation_2 |-> 0,
             key_area_key_index |-> "Application", key |-> "none",
             lookup |-> "none", res |-> KeyOk, called |-> FALSE,
             is_decrypted |-> FALSE, consulted |-> <<>>]

KeysIdle ==
    /\ key_set = KeySetOf(FALSE, 0, 0, {})
    /\ kres = NoKeyRes

NoSres == [op |-> "none", st |-> "none", err |-> NoAggError,
           nca_set |-> <<>>, title_set |-> <<>>, log |-> <<>>]

AggIdle ==
    /\ fs = <<>>
    /\ sres = NoSres

NoZio == [io |-> 0, position |-> 0, size |-> 0, resets |-> 0]

NczIdle == zio = NoZio

CallersIdle == callers = <<>>

NoRw == [io |-> <<>>, pos |-> 0, size |-> 0]

RwIdle == rw = NoRw

NoSlice == [st |-> "none", offset |-> 0, size |-> 0,
            overflow_checks |-> FALSE]

SliceIdle == slice = NoSlice

NoPure == [op |-> "none"]

PureIdle == pure = NoPure

ExtIdle == NczIdle /\ CallersIdle /\ RwIdle /\ SliceIdle /\ PureIdle

IntegrityIdle ==
    /\ hash_data = <<>>
    /\ level = "None"
    /\ ty = "PartitionFs"
    /\ block_statuses = <<>>
    /\ readers = <<>>
    /\ hash_read = FALSE

(***************************************************************************)
(* Specification of the adapter stack                                      *)
(*   LinearAdapterStorage(BlockAdapterStorage(S, n)) and                   *)
(*   LinearAdapterStorage(BlockCacheStorage(BlockAdapterStorage(S, n)))    *)
(***************************************************************************)
EmptyCache(size, bs) == [i \in 0..(block_count(size, bs) - 1) |-> NoEntry]

AdapterInit ==
    /\ \E size \in 0..MaxSize : data = Content(0, size)
    /\ block_size \in 1..MaxBlockSize
    /\ cache = EmptyCache(Len(data), block_size)
    /\ res = NoRes
    /\ ConcatIdle
    /\ IntegrityIdle
    /\ KeysIdle
    /\ AggIdle
    /\ ExtIdle

\* LinearAdapterStorage::read(offset, buf) with buf.len() = len
LinearRead(k, offset, len) ==
    LET r == LinearAdapterStorage_read(k, data, block_size, cache, offset,
                                       FreshBuf(len))
    IN /\ res' = [op |-> "read", kind |-> k, arg |-> offset, len |-> len,
                  st |-> r.st, buf |-> r.buf, inner |-> r.inner]
       /\ cache' = r.cache
       /\ UNCHANGED <<data, block_size>>

\* read_block(block_index, buf) with buf.len() = len on the block storage
BlockRead(k, block_index, len) ==
    LET r == read_block(k, data, block_size, cache, block_index, FreshBuf(len))
    IN /\ res' = [op |-> "read_block", kind |-> k, arg |-> block_index,
                  len |-> len, st |-> r.st, buf |-> r.buf, inner |-> r.inner]
       /\ cache' = r.cache
       /\ UNCHANGED <<data, block_size>>

\* the cache drops an entry (capacity or idle-time eviction)
Evict(block_index) ==
    /\ cache[block_index].present
    /\ cache' = [cache EXCEPT ![block_index] = NoEntry]
    /\ UNCHANGED <<data, block_size, res>>

AdapterNext ==
    \/ /\ \E k \in Kinds : \E offset \in 0..Len(data) :
            \E len \in 0..(Len(data) - offset) : LinearRead(k, offset, len)
       /\ UNCHANGED <<concatVars, integrityVars, keyVars, aggVars, extVars>>
    \/ /\ \E k \in Kinds :
            \E block_index \in 0..(block_count(Len(data), block_size) - 1) :
                \E len \in 1..block_size : BlockRead(k, block_index, len)
       /\ UNCHANGED <<concatVars, integrityVars, keyVars, aggVars, extVars>>
    \/ /\ \E block_index \in DOMAIN cache : Evict(block_index)
       /\ UNCHANGED <<concatVars, integrityVars, keyVars, aggVars, extVars>>

(***************************************************************************)
(* Specification of the concatenations                                     *)
(***************************************************************************)
ConcatInit ==
    /\ \E sizes \in (SeqsUpTo(0..MaxPartLen, MaxParts) \ {<<>>}) :
            storages = PartsOf(sizes, 0)
    /\ cres = NoRes
    /\ AdapterIdle
    /\ IntegrityIdle
    /\ KeysIdle
    /\ AggIdle
    /\ ExtIdle

ConcatSize == Len(Flatten(storages))

\* ConcatStorageN::read(offset, buf) with buf.len() = len
ConcatNRead(offset, len) ==
    LET r == ConcatStorageN_read(storages, offset, FreshBuf(len))
    IN /\ cres' = [op |-> "read", kind |-> "ConcatStorageN", arg |-> offset,
                   len |-> len, st |-> r.st, buf |-> r.buf]
       /\ UNCHANGED storages

\* ConcatStorage2::read(offset, buf) on a concatenation of exactly two parts
Concat2Read(offset, len) ==
    /\ Len(storages) = 2
    /\ LET r == ConcatStorage2_read(storages[1], storages[2], offset,
                                    FreshBuf(len))
       IN cres' = [op |-> "read", kind |-> "ConcatStorage2", arg |-> offset,
                   len |-> len, st |-> r.st, buf |-> r.buf]
    /\ UNCHANGED storages

\* get_size of either concatenation; the size is reported in `len`
ConcatGetSize(k) ==
    /\ k = "ConcatStorage2" => Len(storages) = 2
    /\ cres' = [op |-> "get_size", kind |-> k, arg |-> 0,
                len |-> IF k = "ConcatStorage2"
                        THEN ConcatStorage2_get_size(storages[1], storages[2])
                        ELSE ConcatStorageN_get_size(storages),
                st |-> "Ok", buf |-> <<>>]
    /\ UNCHANGED storages

ConcatNext ==
    \/ /\ \E offset \in 0..(ConcatSize + 1) : \E len \in 0..(ConcatSize + 1) :
            ConcatNRead(offset, len)
       /\ UNCHANGED <<adapterVars, integrityVars, keyVars, aggVars, extVars>>
    \/ /\ \E offset \in 0..ConcatSize : \E len \in 0..(ConcatSize - offset) :
            Concat2Read(offset, len)
       /\ UNCHANGED <<adapterVars, integrityVars, keyVars, aggVars, extVars>>
    \/ /\ \E k \in {"ConcatStorageN", "ConcatStorage2"} : ConcatGetSize(k)
       /\ UNCHANGED <<adapterVars, integrityVars, keyVars, aggVars, extVars>>

(***************************************************************************)
(* Specification of one level of the verification storage: concurrent      *)
(* read_block calls, and writes to the storage under it                    *)
(***************************************************************************)
Readers == {"t1", "t2"}

\* the bytes of block block_index that its digest covers: the block itself
\* (PartitionFs) or the block padded with zeros to the block size (RomFs)
HashedBytes(d, bs, t, block_index) ==
    LET current_block_size == nth_block_size(Len(d), bs, block_index)
        bytes == Slice(d, block_index * bs, current_block_size)
    IN IF t = "RomFs" THEN bytes \o ZeroBuf(bs - current_block_size) ELSE bytes

\* a thread outside read_block; in a call, seen is the status the call found
\* under the lock, mismatch whether the bytes it read fail the digest, and
\* bytes the block as it read it
NoRead == [pc |-> "idle", block_index |-> 0, len |-> 0, block_buf |-> <<>>,
           st |-> "none", buf |-> <<>>, seen |-> "none", mismatch |-> FALSE,
           bytes |-> <<>>]

\* a hash storage that holds the digest of every block of the data
IntegrityInit ==
    /\ \E size \in 1..MaxIvSize : data = Content(0, size)
    /\ block_size \in 1..MaxIvBlockSize
    /\ level \in IntegrityCheckLevel
    /\ ty \in IntegrityStorageType
    /\ hash_data = [i \in 1..block_count(Len(data), block_size) |->
                        Sha256_digest(HashedBytes(data, block_size, ty, i - 1))]
    /\ block_statuses = IVLS_new(Len(data), block_size)
    /\ readers = [r \in Readers |-> NoRead]
    /\ hash_read = FALSE
    /\ cache = <<>>
    /\ res = NoRes
    /\ ConcatIdle
    /\ KeysIdle
    /\ AggIdle
    /\ ExtIdle

\* thread r calls read_block(block_index, buf) with buf.len() = len and runs
\* it up to the lock of block_statuses (to its end under level None)
ReadStart(r, block_index, len) ==
    /\ readers[r].pc # "verify"
    /\ LET in == IVLS_read_inner(data, block_size, block_index, len)
           call == [NoRead EXCEPT
                      !.block_index = block_index,
                      !.len = len,
                      !.mismatch =
                          Sha256_digest(HashedBytes(data, block_size, ty,
                                                    block_index))
                              # hash_data[block_index + 1],
                      !.bytes = Slice(data, block_index * block_size,
                                      nth_block_size(Len(data), block_size,
                                                     block_index))]
       IN readers' = [readers EXCEPT ![r] =
            IF in.st # "Ok"
            THEN [call EXCEPT !.pc = "done", !.st = in.st,
                    !.buf = IVLS_caller_buf(in.block_buf, len, block_size, FALSE)]
            ELSE IF level = "None"
            THEN [call EXCEPT !.pc = "done", !.st = "Ok",
                    !.buf = IVLS_caller_buf(in.block_buf, len, block_size, TRUE)]
            ELSE [call EXCEPT !.pc = "verify", !.block_buf = in.block_buf]]
    /\ UNCHANGED <<data, block_size, hash_data, level, ty, block_statuses,
                   hash_read>>

\* thread r holds the lock of block_statuses and finishes its read_block
ReadVerify(r) ==
    /\ readers[r].pc = "verify"
    /\ LET call == readers[r]
           v == IVLS_verify(block_statuses, level, ty, hash_data, data,
                            block_size, call.block_index, call.block_buf)
       IN /\ block_statuses' = v.statuses
          /\ hash_read' = (hash_read \/ v.hash_read)
          /\ readers' = [readers EXCEPT ![r] =
                [call EXCEPT !.pc = "done", !.st = v.st, !.block_buf = <<>>,
                    !.seen = block_statuses[call.block_index],
                    !.buf = IVLS_caller_buf(v.block_buf, call.len, block_size,
                                            v.st = "Ok")]]
    /\ UNCHANGED <<data, block_size, hash_data, level, ty>>

\* a holder of the shared storage writes one byte: the altered byte 0 or
\* the byte the storage was built with
Mutate(offset, byte) ==
    /\ data' = VecStorage_write(data, offset, <<byte>>).data
    /\ UNCHANGED <<block_size, hash_data, level, ty, block_statuses, readers,
                   hash_read>>

IntegrityNext ==
    \/ /\ \E r \in Readers :
            \E block_index \in 0..(block_count(Len(data), block_size) - 1) :
                \E len \in 1..block_size : ReadStart(r, block_index, len)
       /\ UNCHANGED <<cache, res, concatVars, keyVars, aggVars, extVars>>
    \/ /\ \E r \in Readers : ReadVerify(r)
       /\ UNCHANGED <<cache, res, concatVars, keyVars, aggVars, extVars>>
    \/ /\ \E offset \in 0..(Len(data) - 1) : \E byte \in {0, offset + 1} :
            Mutate(offset, byte)
       /\ UNCHANGED <<cache, res, concatVars, keyVars, aggVars, extVars>>

(***************************************************************************)
(* Specification of the key selection: Nca::new on encrypted headers with  *)
(* every key generation, against keysets that hold the first few keys      *)
(***************************************************************************)
KeysInit ==
    /\ \E has_header_key \in BOOLEAN : \E n_kek \in 0..MaxHeldKeys :
         \E n_kak \in 0..MaxHeldKeys : \E title_keys \in SUBSET (1..MaxRightsId) :
            key_set = KeySetOf(has_header_key, n_kek, n_kak, title_keys)
    /\ kres = NoKeyRes
    /\ AdapterIdle
    /\ ConcatIdle
    /\ IntegrityIdle
    /\ AggIdle
    /\ ExtIdle

\* Nca::new chooses the content key of a header that parsed as it was
\* (is_decrypted) or that needed decryption (one construction per keyset)
ContentKey(is_decrypted, rights_id, key_generation_1, key_generation_2, key_area_key_index) ==
    LET hdr == [rights_id |-> rights_id,
                key_generation_1 |-> key_generation_1,
                key_generation_2 |-> key_generation_2,
                key_area_key_index |-> key_area_key_index]
        r == Nca_content_key(key_set, hdr, is_decrypted)
    IN /\ ~kres.called
       /\ kres' = [rights_id |-> rights_id,
                   key_generation_1 |-> key_generation_1,
                   key_generation_2 |-> key_generation_2,
                   key_area_key_index |-> key_area_key_index,
                   key |-> r.key, lookup |-> r.lookup, res |-> r.res,
                   called |-> TRUE, is_decrypted |-> is_decrypted,
                   consulted |-> r.consulted]
       /\ UNCHANGED key_set

KeysNext ==
    /\ ~kres.called
    /\ \E is_decrypted \in BOOLEAN : \E rights_id \in 0..MaxRightsId :
         \E key_generation_1 \in 0..U8_MAX :
           \E key_generation_2 \in 0..MaxKeyGeneration2 :
             \E key_area_key_index \in KeyAreaKeyIndex :
                ContentKey(is_decrypted, rights_id, key_generation_1,
                           key_generation_2, key_area_key_index)
    /\ UNCHANGED <<adapterVars, concatVars, integrityVars, aggVars, extVars>>

(***************************************************************************)
(* Specification of the aggregator: nca_set_from_fs,                       *)
(* content_set_from_nca_set and SwitchFs::new on a filesystem of up to     *)
(* MaxFiles files                                                          *)
(***************************************************************************)
\* a plaintext Data NCA of one section whose header is in order
BaseHdr ==
    [plaintext |-> TRUE, valid |-> TRUE, magic |-> "Nca3",
     content_type |-> "Data", key_generation_1 |-> 0, key_generation_2 |-> 0,
     key_area_key_index |-> "Application", rights_id |-> 0,
     nca_size |-> ALL_HEADERS_SIZE, enabled |-> {0}, bad_hash |-> {},
     unparsable |-> {}, cnmts |-> <<>>, nacp |-> "none"]

NoTicket == [parses |-> TRUE, title_key_type |-> "Common", rights_id |-> 0]

NcaFile(suffix, stem, hdr) ==
    [suffix |-> suffix, stem |-> stem, size |-> ALL_HEADERS_SIZE, hdr |-> hdr,
     ticket |-> NoTicket]

\* the files a filesystem is made of: the meta NCA of an add-on whose data
\* is NCA 3, the meta NCA of a system update, a data NCA, an NCA encrypted
\* under rights id 1, an NCA whose size field is wrong, an NCA with a bad FS
\* header hash, the ticket of rights id 1, and a .tik file that does not
\* parse
SampleFiles ==
    { NcaFile("cnmt.nca", 1,
              [BaseHdr EXCEPT !.content_type = "Meta",
                  !.cnmts = << [ty |-> "AddOnContent", id |-> 1, version |-> 0,
                                application_id |-> 0,
                                content_info |->
                                    << [ty |-> "Data", id |-> 3,
                                        id_offset |-> 0] >>] >>]),
      NcaFile("cnmt.nca", 2,
              [BaseHdr EXCEPT !.content_type = "Meta",
                  !.cnmts = << [ty |-> "SystemUpdate", id |-> 2, version |-> 0,
                                content_info |-> <<>>] >>]),
      NcaFile("nca", 3, BaseHdr),
      NcaFile("nca", 4, [BaseHdr EXCEPT !.plaintext = FALSE, !.rights_id = 1]),
      NcaFile("nca", 5, [BaseHdr EXCEPT !.nca_size = ALL_HEADERS_SIZE + 1]),
      NcaFile("nca", 6, [BaseHdr EXCEPT !.bad_hash = {0}]),
      [suffix |-> "tik", stem |-> 0, size |-> 1, hdr |-> BaseHdr,
       ticket |-> [NoTicket EXCEPT !.rights_id = 1]],
      [suffix |-> "tik", stem |-> 0, size |-> 1, hdr |-> BaseHdr,
       ticket |-> [NoTicket EXCEPT !.parses = FALSE]] }

AggInit ==
    /\ fs \in SeqsUpTo(SampleFiles, MaxFiles)
    /\ \E has_header_key \in BOOLEAN :
            key_set = KeySetOf(has_header_key, 1, 1, {})
    /\ sres = NoSres
    /\ kres = NoKeyRes
    /\ AdapterIdle
    /\ ConcatIdle
    /\ IntegrityIdle
    /\ ExtIdle

\* nca_set_from_fs(key_set, fs)
NcaSetFromFs ==
    /\ sres.op = "none"
    /\ LET r == nca_set_from_fs(key_set, fs)
       IN sres' = [op |-> "nca_set_from_fs", st |-> r.st, err |-> r.err,
                   nca_set |-> r.ncas, title_set |-> <<>>, log |-> r.log]
    /\ UNCHANGED <<fs, key_set, kres>>

\* content_set_from_nca_set on the NCA set that nca_set_from_fs returned
ContentSetFromNcaSet ==
    /\ sres.op = "nca_set_from_fs"
    /\ sres.st = "Ok"
    /\ LET r == content_set_from_nca_set(sres.nca_set)
       IN sres' = [sres EXCEPT !.op = "content_set_from_nca_set",
                               !.st = r.st, !.err = r.err,
                               !.title_set = r.titles]
    /\ UNCHANGED <<fs, key_set, kres>>

\* SwitchFs::new(key_set, fs); it works on a clone of the keyset
SwitchFsNew ==
    /\ sres.op = "none"
    /\ LET r == SwitchFs_new(key_set, fs)
       IN sres' = [op |-> "SwitchFs::new", st |-> r.st, err |-> r.err,
                   nca_set |-> r.nca_set, title_set |-> r.title_set,
                   log |-> r.log]
    /\ UNCHANGED <<fs, key_set, kres>>

AggNext ==
    \/ /\ NcaSetFromFs
       /\ UNCHANGED <<adapterVars, concatVars, integrityVars, extVars>>
    \/ /\ ContentSetFromNcaSet
       /\ UNCHANGED <<adapterVars, concatVars, integrityVars, extVars>>
    \/ /\ SwitchFsNew
       /\ UNCHANGED <<adapterVars, concatVars, integrityVars, extVars>>

(***************************************************************************)
(* Specification of the streaming NCZ body: reads of the body, reads of    *)
(* the StreamingZstdStorage under it, and evictions from its cache         *)
(***************************************************************************)
\* NczBodyStorage::make_stream over a stream that decompresses to the size
\* its section headers declare
NczInit ==
    /\ \E size \in 0..MaxSize : data = Content(0, size)
    /\ block_size \in 1..MaxBlockSize
    /\ cache = EmptyCache(Len(data), block_size)
    /\ zio = [io |-> 0, position |-> 0, size |-> Len(data), resets |-> 0]
    /\ res = NoRes
    /\ CallersIdle
    /\ RwIdle
    /\ SliceIdle
    /\ PureIdle
    /\ ConcatIdle
    /\ IntegrityIdle
    /\ KeysIdle
    /\ AggIdle

\* NczBodyStorage::read(offset, buf) with buf.len() = len
BodyRead(offset, len) ==
    LET r == NczBodyStorage_read([zio EXCEPT !.resets = 0], data, block_size,
                                 cache, offset, FreshBuf(len))
    IN /\ res' = [op |-> "read", kind |-> "NczBodyStorage", arg |-> offset,
                  len |-> len, st |-> r.st, buf |-> r.buf,
                  offset |-> r.offset]
       /\ cache' = r.cache
       /\ zio' = r.z
       /\ UNCHANGED <<data, block_size>>

\* StreamingZstdStorage::read(offset, buf) with buf.len() = len
StreamRead(offset, len) ==
    LET r == StreamingZstdStorage_read([zio EXCEPT !.resets = 0], data, offset,
                                       FreshBuf(len))
    IN /\ res' = [op |-> "read", kind |-> "StreamingZstdStorage",
                  arg |-> offset, len |-> len, st |-> r.st, buf |-> r.buf]
       /\ zio' = r.z
       /\ UNCHANGED <<data, block_size, cache>>

NczNext ==
    \/ /\ \E o \in 0..Len(data) : \E len \in 0..(Len(data) - o) :
            BodyRead(NCA_HEADERS_SIZE + o, len)
       /\ UNCHANGED <<callers, rw, slice, pure, concatVars, integrityVars, keyVars, aggVars>>
    \/ /\ \E offset \in {0, NCA_HEADERS_SIZE - 1} : \E len \in 0..2 :
            BodyRead(offset, len)
       /\ UNCHANGED <<callers, rw, slice, pure, concatVars, integrityVars, keyVars, aggVars>>
    \/ /\ \E offset \in 0..(Len(data) + 1) : \E len \in 0..Len(data) :
            StreamRead(offset, len)
       /\ UNCHANGED <<callers, rw, slice, pure, concatVars, integrityVars, keyVars, aggVars>>
    \/ /\ \E block_index \in DOMAIN cache : Evict(block_index)
       /\ UNCHANGED <<zio, callers, rw, slice, pure, concatVars, integrityVars, keyVars, aggVars>>

(***************************************************************************)
(* Specification of one BlockCacheStorage shared by several threads: each  *)
(* read_block call is the cache lookup, the inner read and the insert, and *)
(* the calls of different threads interleave between these steps           *)
(***************************************************************************)
Threads == {"t1", "t2"}

\* a thread outside read_block
NoCall == [pc |-> "idle", block_index |-> 0, len |-> 0, st |-> "none",
           buf |-> <<>>, inner |-> FALSE]

SharedCacheInit ==
    /\ \E size \in 1..MaxSize : data = Content(0, size)
    /\ block_size \in 1..MaxBlockSize
    /\ cache = EmptyCache(Len(data), block_size)
    /\ res = NoRes
    /\ callers = [t \in Threads |-> NoCall]
    /\ NczIdle
    /\ RwIdle
    /\ SliceIdle
    /\ PureIdle
    /\ ConcatIdle
    /\ IntegrityIdle
    /\ KeysIdle
    /\ AggIdle

\* read_block(block_index, buf) with buf.len() = len up to self.cache.get:
\* on a hit the call copies the entry and returns
CacheGet(t, block_index, len) ==
    LET bsz == nth_block_size(Len(data), block_size, block_index)
        call == [NoCall EXCEPT !.block_index = block_index, !.len = len,
                               !.buf = FreshBuf(len)]
    IN /\ callers[t].pc = "idle"
       /\ callers' = [callers EXCEPT ![t] =
            IF bsz > len
            THEN [call EXCEPT !.pc = "done", !.st = "Panic"]
            ELSE IF cache[block_index].present
            THEN [call EXCEPT !.pc = "done", !.st = "Ok",
                    !.buf = Overwrite(call.buf, 0, cache[block_index].content)]
            ELSE [call EXCEPT !.pc = "read"]]
       /\ UNCHANGED <<data, block_size, cache, res>>

\* self.storage.read_block(block_index, buf)?
CacheInnerRead(t) ==
    LET call == callers[t]
        bsz == nth_block_size(Len(data), block_size, call.block_index)
        r == BlockAdapterStorage_read_block(data, block_size, call.block_index,
                                            Slice(call.buf, 0, bsz))
    IN /\ call.pc = "read"
       /\ callers' = [callers EXCEPT ![t] =
            IF r.st # "Ok"
            THEN [call EXCEPT !.pc = "done", !.st = r.st, !.inner = TRUE]
            ELSE [call EXCEPT !.pc = "insert", !.inner = TRUE,
                              !.buf = Overwrite(call.buf, 0, r.buf)]]
       /\ UNCHANGED <<data, block_size, cache, res>>

\* self.cache.insert(block_index, Arc::new(buf.to_vec())); Ok(())
CacheInsert(t) ==
    LET call == callers[t]
        bsz == nth_block_size(Len(data), block_size, call.block_index)
    IN /\ call.pc = "insert"
       /\ cache' = [cache EXCEPT ![call.block_index] =
                        Entry(Slice(call.buf, 0, bsz))]
       /\ callers' = [callers EXCEPT ![t] =
                        [call EXCEPT !.pc = "done", !.st = "Ok"]]
       /\ UNCHANGED <<data, block_size, res>>

\* the caller takes the result; the thread is free for its next call
CacheReturn(t) ==
    /\ callers[t].pc = "done"
    /\ callers' = [callers EXCEPT ![t] = NoCall]
    /\ UNCHANGED <<data, block_size, cache, res>>

SharedCacheNext ==
    \/ /\ \E t \in Threads :
            \E block_index \in 0..(block_count(Len(data), block_size) - 1) :
                \E len \in 1..block_size : CacheGet(t, block_index, len)
       /\ UNCHANGED <<zio, rw, slice, pure, concatVars, integrityVars, keyVars, aggVars>>
    \/ /\ \E t \in Threads : CacheInnerRead(t)
       /\ UNCHANGED <<zio, rw, slice, pure, concatVars, integrityVars, keyVars, aggVars>>
    \/ /\ \E t \in Threads : CacheInsert(t)
       /\ UNCHANGED <<zio, rw, slice, pure, concatVars, integrityVars, keyVars, aggVars>>
    \/ /\ \E t \in Threads : CacheReturn(t)
       /\ UNCHANGED <<zio, rw, slice, pure, concatVars, integrityVars, keyVars, aggVars>>
    \/ /\ \E block_index \in DOMAIN cache : Evict(block_index)
       /\ UNCHANGED <<zio, callers, rw, slice, pure, concatVars, integrityVars, keyVars, aggVars>>

(***************************************************************************)
(* Specification of RwIoStorage: reads, writes and set_size                *)
(***************************************************************************)
RwIoInit ==
    /\ \E len \in 0..MaxIoLen : rw = RwIoStorage_new(Content(0, len))
    /\ res = NoRes
    /\ data = <<>> /\ block_size = 1 /\ cache = <<>>
    /\ NczIdle
    /\ CallersIdle
    /\ SliceIdle
    /\ PureIdle
    /\ ConcatIdle
    /\ IntegrityIdle
    /\ KeysIdle
    /\ AggIdle

\* RwIoStorage::read(offset, buf) with buf.len() = len; size is get_size()
\* at the time of the call
RwRead(offset, len) ==
    LET r == RwIoStorage_read(rw, offset, FreshBuf(len))
    IN /\ res' = [op |-> "read", kind |-> "RwIoStorage", arg |-> offset,
                  len |-> len, st |-> r.st, buf |-> r.buf,
                  size |-> RwIoStorage_get_size(rw)]
       /\ rw' = r.inner

\* RwIoStorage::write(offset, buf) with buf.len() = len
RwWrite(offset, len) ==
    LET r == RwIoStorage_write(rw, offset, WrittenBytes(offset, len))
    IN /\ res' = [op |-> "write", kind |-> "RwIoStorage", arg |-> offset,
                  len |-> len, st |-> r.st, buf |-> <<>>,
                  size |-> RwIoStorage_get_size(rw)]
       /\ rw' = r.inner

\* RwIoStorage::set_size(new_size)
RwSetSize(new_size) ==
    LET r == RwIoStorage_set_size(rw, new_size)
    IN /\ res' = [op |-> "set_size", kind |-> "RwIoStorage", arg |-> new_size,
                  len |-> 0, st |-> r.st, buf |-> <<>>,
                  size |-> RwIoStorage_get_size(rw)]
       /\ rw' = r.inner

RwIoNext ==
    \/ /\ \E offset \in 0..MaxIoLen : \E len \in 0..MaxIoLen :
            RwRead(offset, len)
       /\ UNCHANGED <<data, block_size, cache, zio, callers, slice, pure,
                      concatVars, integrityVars, keyVars, aggVars>>
    \/ /\ \E offset \in 0..MaxIoLen : \E len \in 0..MaxIoLen :
            RwWrite(offset, len)
       /\ UNCHANGED <<data, block_size, cache, zio, callers, slice, pure,
                      concatVars, integrityVars, keyVars, aggVars>>
    \/ /\ \E new_size \in 0..MaxIoLen : RwSetSize(new_size)
       /\ UNCHANGED <<data, block_size, cache, zio, callers, slice, pure,
                      concatVars, integrityVars, keyVars, aggVars>>

(***************************************************************************)
(* Specification of SliceStorage: one construction, then reads             *)
(***************************************************************************)
SliceInit ==
    /\ \E size \in 0..MaxSize : data = Content(0, size)
    /\ \E overflow_checks \in BOOLEAN :
            slice = [NoSlice EXCEPT !.overflow_checks = overflow_checks]
    /\ block_size = 1 /\ cache = <<>>
    /\ res = NoRes
    /\ NczIdle
    /\ CallersIdle
    /\ RwIdle
    /\ PureIdle
    /\ ConcatIdle
    /\ IntegrityIdle
    /\ KeysIdle
    /\ AggIdle

\* SliceStorage::new(inner, offset, size)
SliceNew(offset, size) ==
    /\ slice.st = "none"
    /\ slice' = SliceStorage_new(data, offset, size, slice.overflow_checks)
    /\ res' = [op |-> "new", kind |-> "SliceStorage", arg |-> offset,
               len |-> size, st |-> slice'.st, buf |-> <<>>, inner |-> <<>>]

\* SliceStorage::read(offset, buf) with buf.len() = len on a constructed slice
SliceRead(offset, len) ==
    /\ slice.st = "Ok"
    /\ LET r == SliceStorage_read(slice, data, offset, FreshBuf(len))
       IN res' = [op |-> "read", kind |-> "SliceStorage", arg |-> offset,
                  len |-> len, st |-> r.st, buf |-> r.buf, inner |-> r.inner]
    /\ UNCHANGED slice

SliceNext ==
    \/ /\ \E offset \in 0..MaxWord : \E size \in 0..MaxWord :
            SliceNew(offset, size)
       /\ UNCHANGED <<data, block_size, cache, zio, callers, rw, pure, concatVars,
                      integrityVars, keyVars, aggVars>>
    \/ /\ \E offset \in 0..MaxWord : \E len \in 0..MaxSliceRead :
            SliceRead(offset, len)
       /\ UNCHANGED <<data, block_size, cache, zio, callers, rw, pure, concatVars,
                      integrityVars, keyVars, aggVars>>

(***************************************************************************)
(* Specification of Nca::new on one storage and get_fs on the NCA it       *)
(* returns: headers that parse as they are or after decryption, every      *)
(* choice of enabled sections and of sections whose FS header does not     *)
(* hash or does not parse                                                  *)
(***************************************************************************)
NcaSectionType == {"Code", "Data", "Logo"}
Sections == 0..(SECTION_COUNT - 1)

NcaHeaders ==
    {[BaseHdr EXCEPT !.plaintext = plaintext, !.magic = magic,
                     !.content_type = content_type, !.enabled = enabled,
                     !.bad_hash = bad_hash, !.unparsable = unparsable] :
        plaintext \in BOOLEAN, magic \in {"Nca3", "Nca0"},
        content_type \in {"Program", "Data"}, enabled \in SUBSET Sections,
        bad_hash \in SUBSET Sections, unparsable \in SUBSET Sections}

NoNcaRes == [op |-> "none", st |-> "none", err |-> NoError, ty |-> "none",
             index |-> 0, some |-> FALSE]

NcaInit ==
    /\ \E hdr \in NcaHeaders : fs = << NcaFile("nca", 1, hdr) >>
    /\ \E has_header_key \in BOOLEAN :
            key_set = KeySetOf(has_header_key, 1, 1, {})
    /\ sres = NoNcaRes
    /\ kres = NoKeyRes
    /\ AdapterIdle
    /\ ConcatIdle
    /\ IntegrityIdle
    /\ ExtIdle

\* Nca::new(key_set, storage) on the storage of the file
NcaNew ==
    /\ sres.op = "none"
    /\ LET r == Nca_new(key_set, fs[1])
       IN sres' = [NoNcaRes EXCEPT !.op = "Nca::new", !.st = r.st,
                                   !.err = r.err]
    /\ UNCHANGED <<fs, key_set, kres>>

\* get_fs(ty, integrity_level) on the NCA that Nca::new returned
GetFs(section_type) ==
    /\ sres.op \in {"Nca::new", "get_fs"}
    /\ sres.st = "Ok"
    /\ LET r == Nca_get_fs([hdr |-> fs[1].hdr], section_type)
       IN sres' = [sres EXCEPT !.op = "get_fs", !.ty = section_type,
                               !.index = r.index, !.some = r.some]
    /\ UNCHANGED <<fs, key_set, kres>>

NcaNext ==
    \/ /\ NcaNew
       /\ UNCHANGED <<adapterVars, concatVars, integrityVars, extVars>>
    \/ /\ \E section_type \in NcaSectionType : GetFs(section_type)
       /\ UNCHANGED <<adapterVars, concatVars, integrityVars, extVars>>

(***************************************************************************)
(* Specification of parse_programs on the CNMT of an Application meta      *)
(* whose content_info holds up to MaxContentInfo entries; every NCA that   *)
(* the entries mention is in the NCA set                                   *)
(***************************************************************************)
SampleContentTypes ==
    <<"Program", "Control", "HtmlDocument", "LegalInformation", "Data">>

\* the entry of the i-th content type at id_offset; its content id is
\* its own
ContentEntry(i, id_offset) ==
    [ty |-> SampleContentTypes[i],
     id |-> id_offset * Len(SampleContentTypes) + i, id_offset |-> id_offset]

ContentEntries ==
    {ContentEntry(i, id_offset) :
        i \in DOMAIN SampleContentTypes, id_offset \in 0..MaxIdOffset}

\* the NCA set: one NCA per entry, the Control ones with a control.nacp
ProgramsNcaSet ==
    [id \in {c.id : c \in ContentEntries} |->
        [hdr |-> [BaseHdr EXCEPT !.nacp = "present"],
         content_key |-> "Plaintext"]]

NoProgramsRes == [op |-> "none", st |-> "none", err |-> NoContentError,
                  programs |-> <<>>]

ProgramsInit ==
    /\ \E content_info \in SeqsUpTo(ContentEntries, MaxContentInfo) :
         fs = << NcaFile("cnmt.nca", 1,
                    [BaseHdr EXCEPT !.content_type = "Meta",
                        !.cnmts = << [ty |-> "Application", id |-> 1,
                                      version |-> 0,
                                      content_info |-> content_info] >>]) >>
    /\ key_set = KeySetOf(FALSE, 0, 0, {})
    /\ sres = NoProgramsRes
    /\ kres = NoKeyRes
    /\ AdapterIdle
    /\ ConcatIdle
    /\ IntegrityIdle
    /\ ExtIdle

\* the CNMT that parse_programs is called on
ProgramsMeta == fs[1].hdr.cnmts[1]

\* parse_programs(meta, nca_set)
ParsePrograms ==
    /\ sres.op = "none"
    /\ LET r == parse_programs(ProgramsMeta, ProgramsNcaSet)
       IN sres' = [op |-> "parse_programs", st |-> r.st, err |-> r.err,
                   programs |-> r.programs]
    /\ UNCHANGED <<fs, key_set, kres>>

\* parse_content on the meta NCA, which parses the programs of an
\* Application and then looks for its LegalInformation content
ParseContent ==
    /\ sres.op = "none"
    /\ LET r == parse_content(1, [hdr |-> fs[1].hdr, content_key |-> "Plaintext"],
                              ProgramsNcaSet)
       IN sres' = [op |-> "parse_content", st |-> r.st, err |-> r.err,
                   programs |-> IF r.st = "Ok" THEN r.content.programs
                                ELSE <<>>]
    /\ UNCHANGED <<fs, key_set, kres>>

ProgramsNext ==
    \/ /\ ParsePrograms
       /\ UNCHANGED <<adapterVars, concatVars, integrityVars, extVars>>
    \/ /\ ParseContent
       /\ UNCHANGED <<adapterVars, concatVars, integrityVars, extVars>>

(***************************************************************************)
(* Specification of the application set: content_set_from_nca_set on up to *)
(* MaxMetas meta NCAs, then build_application_set on the content set       *)
(***************************************************************************)
\* the content_info of a meta with one program per id offset in offsets:
\* its Program under program_base + id_offset, its Control under
\* 12 + id_offset, and the LegalInformation content of the meta
AppContentInfo(program_base, offsets) ==
    [i \in 1..(2 * Len(offsets) + 1) |->
        IF i = 2 * Len(offsets) + 1
        THEN [ty |-> "LegalInformation", id |-> 19, id_offset |-> offsets[1]]
        ELSE IF i % 2 = 1
        THEN [ty |-> "Program", id |-> program_base + offsets[(i + 1) \div 2],
              id_offset |-> offsets[(i + 1) \div 2]]
        ELSE [ty |-> "Control", id |-> 12 + offsets[i \div 2],
              id_offset |-> offsets[i \div 2]]]

AppMeta(meta_ty, id, version, application_id, content_info) ==
    [ty |-> meta_ty, id |-> id, version |-> version,
     application_id |-> application_id, content_info |-> content_info]

\* the metas a content set is made of: application 1024 at versions 0 and
\* 1; application 2048; for application 1024 a patch with a lower id than
\* it (version 1), a patch of its base version 0, and a patch of a program
\* at an id offset that the application lacks; a patch and an add-on of
\* application 2048, both with a lower id than it; an application whose
\* only content is its LegalInformation, and a patch without content
AppMetas ==
    { AppMeta("Application", 1024, 0, NoId, AppContentInfo(20, <<0, 1>>)),
      AppMeta("Application", 1024, 1, NoId, AppContentInfo(20, <<0, 1>>)),
      AppMeta("Application", 2048, 0, NoId, AppContentInfo(30, <<0>>)),
      AppMeta("Patch", 512, 1, 1024, AppContentInfo(40, <<0, 1>>)),
      AppMeta("Patch", 1536, 0, 1024, AppContentInfo(40, <<0>>)),
      AppMeta("Patch", 1536, 2, 1024, AppContentInfo(40, <<2>>)),
      AppMeta("Patch", 1536, 1, 2048, AppContentInfo(50, <<0>>)),
      AppMeta("AddOnContent", 768, 0, 2048,
              << [ty |-> "Data", id |-> 18, id_offset |-> 0] >>),
      AppMeta("Application", 2048, 1, NoId,
              << [ty |-> "LegalInformation", id |-> 19, id_offset |-> 0] >>),
      AppMeta("Patch", 1536, 3, 1024, <<>>) }

\* the content NCAs that the metas name, the Control ones with a
\* control.nacp
AppContentNcas ==
    [id \in {c.id : c \in UNION {{m.content_info[i] :
                                      i \in DOMAIN m.content_info} :
                                 m \in AppMetas}} |->
        [hdr |-> [BaseHdr EXCEPT !.nacp = "present"],
         content_key |-> "Plaintext"]]

\* the NCA set: the meta NCAs of fs under their content ids, and the
\* content NCAs
AppsNcaSet ==
    [id \in {fs[i].stem : i \in DOMAIN fs} \cup DOMAIN AppContentNcas |->
        IF id \in DOMAIN AppContentNcas THEN AppContentNcas[id]
        ELSE [hdr |-> fs[CHOOSE i \in DOMAIN fs : fs[i].stem = id].hdr,
              content_key |-> "Plaintext"]]

NoAppsRes == [op |-> "none", st |-> "none", err |-> NoAggError,
              title_set |-> <<>>, applications |-> <<>>, skipped |-> {}]

AppsInit ==
    /\ \E metas \in SeqsUpTo(AppMetas, MaxMetas) :
         fs = [i \in 1..Len(metas) |->
                  NcaFile("cnmt.nca", 100 + i,
                          [BaseHdr EXCEPT !.content_type = "Meta",
                                          !.cnmts = << metas[i] >>])]
    /\ key_set = KeySetOf(FALSE, 0, 0, {})
    /\ sres = NoAppsRes
    /\ kres = NoKeyRes
    /\ AdapterIdle
    /\ ConcatIdle
    /\ IntegrityIdle
    /\ ExtIdle

\* content_set_from_nca_set(nca_set)
ContentSetOfMetas ==
    /\ sres.op = "none"
    /\ LET r == content_set_from_nca_set(AppsNcaSet)
       IN sres' = [sres EXCEPT !.op = "content_set_from_nca_set",
                               !.st = r.st, !.err = r.err,
                               !.title_set = r.titles]
    /\ UNCHANGED <<fs, key_set, kres>>

\* build_application_set on the content set that content_set_from_nca_set
\* returned
BuildApplicationSet ==
    /\ sres.op = "content_set_from_nca_set"
    /\ sres.st = "Ok"
    /\ LET r == build_application_set(sres.title_set)
       IN sres' = [sres EXCEPT !.op = "build_application_set",
                               !.st = r.st,
                               !.applications = r.applications,
                               !.skipped = r.skipped]
    /\ UNCHANGED <<fs, key_set, kres>>

AppsNext ==
    \/ /\ ContentSetOfMetas
       /\ UNCHANGED <<adapterVars, concatVars, integrityVars, extVars>>
    \/ /\ BuildApplicationSet
       /\ UNCHANGED <<adapterVars, concatVars, integrityVars, extVars>>

(***************************************************************************)
(* Specification of Version: into_parts of the version made from a u32     *)
(***************************************************************************)
\* every variable but pure is left alone by the call of a function
\* without state, and starts idle
PureUnchanged ==
    UNCHANGED <<adapterVars, concatVars, integrityVars, keyVars, aggVars,
                nczVars, callers, rw, slice>>

PureOnly ==
    /\ AdapterIdle
    /\ ConcatIdle
    /\ IntegrityIdle
    /\ KeysIdle
    /\ AggIdle
    /\ NczIdle
    /\ CallersIdle
    /\ RwIdle
    /\ SliceIdle

\* the bytes the versions are made of
VersionBytes == {0, 1, 254, U8_MAX}

\* a u32 as its two 16-bit halves
VersionHalves == {a * (U8_MAX + 1) + b : a, b \in VersionBytes}

\* u32::to_be_bytes
to_be_bytes(value) ==
    << value.hi \div (U8_MAX + 1), value.hi % (U8_MAX + 1),
       value.lo \div (U8_MAX + 1), value.lo % (U8_MAX + 1) >>

\* Version::from(u32)
Version_from(value) == value

\* Version::into_parts; v0 + 1 is an addition of u8, which panics past
\* U8_MAX in a build with overflow checks and wraps in one without
Version_into_parts(self, overflow_checks) ==
    LET v == to_be_bytes(self)
    IN IF v[1] + 1 > U8_MAX /\ overflow_checks
       THEN [st |-> "Panic", parts |-> <<>>]
       ELSE [st |-> "Ok",
             parts |-> << (v[1] + 1) % (U8_MAX + 1), v[2], v[3] >>]

VersionInit ==
    /\ \E hi \in VersionHalves : \E lo \in VersionHalves :
       \E overflow_checks \in BOOLEAN :
            pure = [op |-> "none", value |-> [hi |-> hi, lo |-> lo],
                    overflow_checks |-> overflow_checks,
                    st |-> "none", parts |-> <<>>]
    /\ PureOnly

\* Version::from(value).into_parts()
IntoParts ==
    /\ pure.op = "none"
    /\ LET r == Version_into_parts(Version_from(pure.value),
                                   pure.overflow_checks)
       IN pure' = [pure EXCEPT !.op = "into_parts", !.st = r.st,
                               !.parts = r.parts]
    /\ PureUnchanged

VersionNext == IntoParts

(***************************************************************************)
(* Specification of NczBodyStorage::make_block on a block header of up to  *)
(* MaxBlocks compressed blocks                                             *)
(***************************************************************************)
BLOCK_EXPONENT_MIN == 14
BLOCK_EXPONENT_MAX == 32

\* reader.stream_position() after the block header has been read: the NCA
\* headers, the NCZSECTN header with its section headers of 64 bytes, and
\* the NCZBLOCK header of 24 bytes with one u32 per block
block_header_end(section_count, number_of_blocks) ==
    NCA_HEADERS_SIZE + 16 + 64 * section_count + 24 + 4 * number_of_blocks

\* min(1u64 << block_size_exponent, left_decompressed_size); left is below
\* 2^30 here, and 1 << 31 and 1 << 32 are beyond the integers of the model
min_block_decompressed_size(block_size_exponent, left) ==
    IF block_size_exponent > 30 THEN left
    ELSE Min(2 ^ block_size_exponent, left)

\* the loop of make_block over the compressed block sizes: a block as long
\* compressed as decompressed ends in todo!()
RECURSIVE make_block_storages(_, _, _)
make_block_storages(block_size_exponent, sizes, left_decompressed_size) ==
    IF sizes = <<>> THEN "Ok"
    ELSE IF Head(sizes) = min_block_decompressed_size(block_size_exponent,
                                                      left_decompressed_size)
    THEN "Panic"
    ELSE make_block_storages(block_size_exponent, Tail(sizes),
            left_decompressed_size
                - min_block_decompressed_size(block_size_exponent,
                                              left_decompressed_size))

NoNczError == [exponent |-> 0, expected |-> 0, actual |-> 0]

\* NczBodyStorage::make_block with the size check ahead of the exponent
\* check
make_block_SizeFirst(block_header, position, total_size) ==
    IF ~block_header.parses
    THEN [st |-> "NczHeaderParsing", err |-> NoNczError]
    ELSE IF position + SeqSum(block_header.compressed_block_sizes)
                # total_size
    THEN [st |-> "SizeMismatch",
          err |-> [NoNczError EXCEPT
                     !.expected =
                         position
                             + SeqSum(block_header.compressed_block_sizes),
                     !.actual = total_size]]
    ELSE IF \/ block_header.block_size_exponent < BLOCK_EXPONENT_MIN
            \/ block_header.block_size_exponent > BLOCK_EXPONENT_MAX
    THEN [st |-> "InvalidBlockSizeExponent",
          err |-> [NoNczError EXCEPT
                     !.exponent = block_header.block_size_exponent]]
    ELSE [st |-> "Ok", err |-> NoNczError]

\* NczBodyStorage::make_block(reader, _header, total_size); position is the
\* reader's position after the block header
make_block(block_header, position, total_size) ==
    IF ~block_header.parses
    THEN [st |-> "NczHeaderParsing", err |-> NoNczError]
    ELSE IF \/ block_header.block_size_exponent < BLOCK_EXPONENT_MIN
            \/ block_header.block_size_exponent > BLOCK_EXPONENT_MAX
    THEN [st |-> "InvalidBlockSizeExponent",
          err |-> [NoNczError EXCEPT
                     !.exponent = block_header.block_size_exponent]]
    ELSE IF position + SeqSum(block_header.compressed_block_sizes)
                # total_size
    THEN [st |-> "SizeMismatch",
          err |-> [NoNczError EXCEPT
                     !.expected =
                         position
                             + SeqSum(block_header.compressed_block_sizes),
                     !.actual = total_size]]
    ELSE [st |-> make_block_storages(block_header.block_size_exponent,
                     block_header.compressed_block_sizes,
                     block_header.total_decompressed_size),
          err |-> NoNczError]

\* the block size exponents tried: below, at and above both limits
BlockSizeExponents ==
    {0, BLOCK_EXPONENT_MIN - 1, BLOCK_EXPONENT_MIN, BLOCK_EXPONENT_MIN + 1,
     BLOCK_EXPONENT_MAX, BLOCK_EXPONENT_MAX + 1, U8_MAX}

\* a file whose size is that of its headers and blocks, one byte less or
\* one byte more
MakeBlockInit ==
    /\ \E parses \in BOOLEAN :
       \E block_size_exponent \in BlockSizeExponents :
       \E sizes \in SeqsUpTo(1..MaxBlockBytes, MaxBlocks) :
       \E total_decompressed_size \in 0..MaxSize :
       \E excess \in {0 - 1, 0, 1} :
            pure = [op |-> "none",
                    block_header |->
                        [parses |-> parses,
                         block_size_exponent |-> block_size_exponent,
                         total_decompressed_size |-> total_decompressed_size,
                         compressed_block_sizes |-> sizes],
                    position |-> block_header_end(1, Len(sizes)),
                    total_size |-> block_header_end(1, Len(sizes))
                                       + SeqSum(sizes) + excess,
                    st |-> "none", err |-> NoNczError]
    /\ PureOnly

MakeBlock ==
    /\ pure.op = "none"
    /\ LET r == make_block(pure.block_header, pure.position, pure.total_size)
       IN pure' = [pure EXCEPT !.op = "make_block", !.st = r.st,
                               !.err = r.err]
    /\ PureUnchanged

MakeBlockNext == MakeBlock

(***************************************************************************)
(* Specification of the AES-CTR counter: NcaCryptStorage::new_ctr, then    *)
(* reads of single blocks and bulk reads through the AesCtrStorage.  A u64 *)
(* is a number below CtrWord and a u128 a number below CtrWord * CtrWord   *)
(***************************************************************************)
AES_BLOCK_SIZE == 16

\* u128::from_be_bytes of 16 bytes given as their upper and lower 8 bytes
u128_from_be_bytes(bytes) == bytes.hi * CtrWord + bytes.lo

\* u128::to_be_bytes
u128_to_be_bytes(value) == [hi |-> value \div CtrWord, lo |-> value % CtrWord]

\* NcaCryptStorage::new_ctr: the nonce of the transform, bytes 0..8 the
\* upper counter and bytes 8..16 start_offset / 16, both big-endian
NcaCryptStorage_new_ctr(upper_counter, start_offset) ==
    [hi |-> upper_counter, lo |-> start_offset \div AES_BLOCK_SIZE]

\* get_ctr as the bytes of the nonce with block_index in their lower half
AesCtrBlockTransform_get_ctr_ReplaceLow(nonce, block_index, overflow_checks) ==
    [st |-> "Ok", ctr |-> [hi |-> nonce.hi, lo |-> block_index]]

\* AesCtrBlockTransform::get_ctr: an addition of u128, which panics on
\* overflow in a build with overflow checks and wraps in one without
AesCtrBlockTransform_get_ctr(nonce, block_index, overflow_checks) ==
    IF /\ u128_from_be_bytes(nonce) + block_index >= CtrWord * CtrWord
       /\ overflow_checks
    THEN [st |-> "Panic", ctr |-> [hi |-> 0, lo |-> 0]]
    ELSE [st |-> "Ok",
          ctr |-> u128_to_be_bytes((u128_from_be_bytes(nonce) + block_index)
                                       % (CtrWord * CtrWord))]

\* Ctr128BE keyed with iv: the counter blocks of the keystream for a buffer
\* of count blocks, the counter going up by one per block modulo 2^128
Ctr128BE_counters(iv, count) ==
    [j \in 1..count |->
        u128_to_be_bytes((u128_from_be_bytes(iv) + (j - 1))
                             % (CtrWord * CtrWord))]

\* AesCtrBlockTransform::transform_read on a buffer of count blocks: the
\* counter blocks that AesKey::decrypt_ctr decrypts them with
AesCtrBlockTransform_transform_read(nonce, block_index, count, overflow_checks) ==
    TheOnly({[st |-> c.st,
              counters |-> IF c.st = "Ok" THEN Ctr128BE_counters(c.ctr, count)
                           ELSE <<>>] :
                c \in {AesCtrBlockTransform_get_ctr(nonce, block_index,
                                                    overflow_checks)}})

\* the offsets a section may start at, and the upper counters
CtrStartOffsets ==
    {0, AES_BLOCK_SIZE - 1, AES_BLOCK_SIZE, AES_BLOCK_SIZE + 1,
     2 * AES_BLOCK_SIZE, CtrWord - AES_BLOCK_SIZE, CtrWord - 1}

CtrUpperCounters == {0, 1, CtrWord - 2, CtrWord - 1}

\* the AES blocks of the largest storage: one of fewer than CtrWord bytes
CtrBlocks == (CtrWord - 1) \div AES_BLOCK_SIZE

CtrInit ==
    /\ \E upper_counter \in CtrUpperCounters :
       \E start_offset \in CtrStartOffsets :
       \E overflow_checks \in BOOLEAN :
            pure = [op |-> "new_ctr", upper_counter |-> upper_counter,
                    start_offset |-> start_offset,
                    nonce |-> NcaCryptStorage_new_ctr(upper_counter,
                                                      start_offset),
                    overflow_checks |-> overflow_checks,
                    block_index |-> 0, count |-> 0, st |-> "none",
                    counters |-> <<>>]
    /\ PureOnly

\* BlockTransformStorage::read_block(block_index, buf)
CtrReadBlock(block_index) ==
    /\ LET r == AesCtrBlockTransform_transform_read(pure.nonce, block_index,
                                                    1, pure.overflow_checks)
       IN pure' = [pure EXCEPT !.op = "read_block",
                               !.block_index = block_index, !.count = 1,
                               !.st = r.st, !.counters = r.counters]
    /\ PureUnchanged

\* BlockTransformStorage::read_block_bulk(block_index, buf) with a buffer
\* of count blocks
CtrReadBlockBulk(block_index, count) ==
    /\ LET r == AesCtrBlockTransform_transform_read(pure.nonce, block_index,
                                                    count,
                                                    pure.overflow_checks)
       IN pure' = [pure EXCEPT !.op = "read_block_bulk",
                               !.block_index = block_index, !.count = count,
                               !.st = r.st, !.counters = r.counters]
    /\ PureUnchanged

CtrNext ==
    \/ \E block_index \in 0..(CtrBlocks - 1) : CtrReadBlock(block_index)
    \/ \E block_index \in 0..(CtrBlocks - 1) :
       \E count \in 1..(CtrBlocks - block_index) :
            CtrReadBlockBulk(block_index, count)

(***************************************************************************)
(* Specification of entries_recursive: the walk of a directory tree of     *)
(* depth three with up to MaxEntries entries per directory, one call of    *)
(* RecursiveDirectoryIter::next at a time.  An entry is named by its place *)
(* in its directory, a path is the sequence of the names it joins with '/' *)
(***************************************************************************)
\* the entries of a directory, each named by its place
Named(entries) ==
    [i \in 1..Len(entries) |-> [entries[i] EXCEPT !.name = i]]

FileEntry == [kind |-> "File", name |-> 0, entries |-> <<>>]

DirectoryEntry(entries) ==
    [kind |-> "Directory", name |-> 0, entries |-> Named(entries)]

\* files and directories of files
ShallowEntries ==
    {FileEntry} \cup {DirectoryEntry(entries) :
                        entries \in SeqsUpTo({FileEntry}, MaxEntries)}

\* files, and directories of files and of directories of files
DeepEntries ==
    {FileEntry} \cup {DirectoryEntry(entries) :
                        entries \in SeqsUpTo(ShallowEntries, MaxEntries)}

\* ReadableDirectoryExt::entries_recursive
entries_recursive(root) == [inner |-> << root >>, path |-> <<>>]

\* RecursiveDirectoryIter::next: the iterator after the call and the item
\* it returned
RECURSIVE RecursiveDirectoryIter_next(_)
RecursiveDirectoryIter_next(self) ==
    IF self.inner = <<>>
    THEN [self |-> self, some |-> FALSE, path |-> <<>>, kind |-> "none"]
    ELSE IF self.inner[Len(self.inner)] = <<>>
    THEN RecursiveDirectoryIter_next(
            [self EXCEPT !.inner = SubSeq(@, 1, Len(@) - 1)])
    ELSE IF Head(self.inner[Len(self.inner)]).kind = "File"
    THEN [self |-> [self EXCEPT !.inner[Len(self.inner)] = Tail(@)],
          some |-> TRUE,
          path |-> Append(self.path,
                          Head(self.inner[Len(self.inner)]).name),
          kind |-> "File"]
    ELSE [self |->
            [inner |-> Append([self.inner EXCEPT ![Len(self.inner)] = Tail(@)],
                              Head(self.inner[Len(self.inner)]).entries),
             path |-> Append(self.path,
                             Head(self.inner[Len(self.inner)]).name)],
          some |-> TRUE,
          path |-> Append(self.path,
                          Head(self.inner[Len(self.inner)]).name),
          kind |-> "Directory"]

WalkInit ==
    /\ \E root \in SeqsUpTo(DeepEntries, MaxEntries) :
            pure = [op |-> "entries_recursive", root |-> Named(root),
                    it |-> entries_recursive(Named(root)),
                    yielded |-> <<>>, done |-> FALSE]
    /\ PureOnly

\* one call of next on the iterator
WalkNext ==
    /\ ~pure.done
    /\ \E r \in {RecursiveDirectoryIter_next(pure.it)} :
            pure' = [pure EXCEPT
                        !.op = "next",
                        !.it = r.self,
                        !.done = ~r.some,
                        !.yielded = IF r.some
                                    THEN Append(@, [path |-> r.path,
                                                    kind |-> r.kind])
                                    ELSE @]
    /\ PureUnchanged

(***************************************************************************)
(* Specification of NcaVerificationStorage at level Full: a data level     *)
(* under one or two hash levels and the master hash.  Level k verifies its *)
(* blocks against the digests held by level k - 1, level 1 against the     *)
(* master hash.  A hash level is the sequence of its digests and its block *)
(* size counts digests, so that digest i sits at byte i * DIGEST_SIZE.     *)
(***************************************************************************)
\* add_level: a BlockAdapterStorage over the level's slice under a fresh
\* IntegrityVerificationLevelStorage
LevelStorage(d, bs) ==
    [data |-> d, block_size |-> bs, block_statuses |-> IVLS_new(Len(d), bs)]

\* the digests a well-formed image holds for the blocks of a level
DigestsOf(lv, t) ==
    [j \in 1..block_count(Len(lv.data), lv.block_size) |->
        Sha256_digest(HashedBytes(lv.data, lv.block_size, t, j - 1))]

\* make_level2_storage / make_level3_storage over a well-formed image: the
\* level under the master hash is a single block
make_level_storage(size, bs, mid_bs, level_count, t) ==
    LET data_level == LevelStorage(Content(0, size), bs)
        mid_level == LevelStorage(DigestsOf(data_level, t), mid_bs)
        top_of(lv) == LevelStorage(DigestsOf(lv, t), Len(DigestsOf(lv, t)))
    IN IF level_count = 2
       THEN <<top_of(data_level), data_level>>
       ELSE <<top_of(mid_level), mid_level, data_level>>

\* the master hash of a well-formed image
MasterHashOf(levels, t) == DigestsOf(levels[1], t)[1]

\* IntegrityVerificationLevelStorage::read_block of level k under Full, and
\* the read of the digest of block index of level k + 1 through the
\* LinearAdapterStorage of level k (k = 0: the VecStorage of the master hash)
RECURSIVE NVS_read_block(_, _, _, _, _)
RECURSIVE NVS_hash_storage_read(_, _, _, _, _)
NVS_hash_storage_read(levels, master_hash, t, k, index) ==
    IF k = 0
    THEN TheOnly({[st |-> r.st, levels |-> levels, digest |-> r.digest] :
                    r \in {hash_storage_read(<<master_hash>>,
                                             index * DIGEST_SIZE)}})
    ELSE TheOnly({[st |-> r.st, levels |-> r.levels,
                   digest |-> IF r.st = "Ok"
                              THEN r.block[(index % levels[k].block_size) + 1]
                              ELSE Sha256_digest(<<>>)] :
                    r \in {NVS_read_block(levels, master_hash, t, k,
                                          index \div levels[k].block_size)}})

NVS_read_block(levels, master_hash, t, k, block_index) ==
    LET lv == levels[k]
        inner == BlockAdapterStorage_read_block(
                     lv.data, lv.block_size, block_index,
                     FreshBuf(nth_block_size(Len(lv.data), lv.block_size,
                                             block_index)))
        hash == Sha256_digest(HashedBytes(lv.data, lv.block_size, t,
                                          block_index))
    IN IF inner.st # "Ok"
       THEN [st |-> inner.st, levels |-> levels, block |-> <<>>]
       ELSE IF lv.block_statuses[block_index] = "Valid"
       THEN [st |-> "Ok", levels |-> levels, block |-> inner.buf]
       ELSE IF lv.block_statuses[block_index] = "Invalid"
       THEN [st |-> "IntegrityCheckFailed", levels |-> levels,
             block |-> inner.buf]
       ELSE TheOnly({
              IF e.st # "Ok"
              THEN [st |-> e.st, levels |-> e.levels, block |-> inner.buf]
              ELSE IF hash = e.digest
              THEN [st |-> "Ok",
                    levels |-> [e.levels EXCEPT
                                  ![k].block_statuses[block_index] = "Valid"],
                    block |-> inner.buf]
              ELSE [st |-> "IntegrityCheckFailed",
                    levels |-> [e.levels EXCEPT
                                  ![k].block_statuses[block_index] = "Invalid"],
                    block |-> inner.buf] :
              e \in {NVS_hash_storage_read(levels, master_hash, t, k - 1,
                                           block_index)}})

\* another digest than d
OtherDigest(d) == Sha256_digest(d.sha256 \o d.sha256)

LevelsInit ==
    /\ \E size \in 1..MaxLvSize, bs \in 1..MaxLvBlockSize,
          mid_bs \in 1..MaxLvBlockSize, level_count \in 2..MaxLevelCount,
          t \in IntegrityStorageType :
            pure = [op |-> "new", ty |-> t,
                    levels |-> make_level_storage(size, bs, mid_bs,
                                                  level_count, t),
                    master_hash |->
                        MasterHashOf(make_level_storage(size, bs, mid_bs,
                                                        level_count, t), t),
                    corrupted |-> {}, block_index |-> 0, st |-> "Ok"]
    /\ PureOnly

\* read_block(block_index) of the data level
LevelsReadBlock(block_index) ==
    /\ pure' = TheOnly({[pure EXCEPT !.op = "read_block",
                                     !.levels = r.levels,
                                     !.block_index = block_index,
                                     !.st = r.st] :
                r \in {NVS_read_block(pure.levels, pure.master_hash, pure.ty,
                                      Len(pure.levels), block_index)}})
    /\ PureUnchanged

\* the image changes under the storage: the digest that level k holds at
\* index (k = 0: the master hash) becomes another one
LevelsCorrupt(k, index) ==
    /\ Cardinality(pure.corrupted) < MaxCorrupted
    /\ [level |-> k, index |-> index] \notin pure.corrupted
    /\ pure' = [pure EXCEPT
                  !.op = "corrupt",
                  !.corrupted = @ \cup {[level |-> k, index |-> index]},
                  !.master_hash = IF k = 0 THEN OtherDigest(@) ELSE @,
                  !.levels = IF k = 0 THEN @
                             ELSE [@ EXCEPT ![k].data[index + 1] =
                                               OtherDigest(@)]]
    /\ PureUnchanged

LevelsNext ==
    \/ \E block_index \in DOMAIN pure.levels[Len(pure.levels)].block_statuses :
            LevelsReadBlock(block_index)
    \/ \E k \in 0..(Len(pure.levels) - 1) :
         \E index \in 0..(IF k = 0 THEN 0
                          ELSE Len(pure.levels[k].data) - 1) :
            LevelsCorrupt(k, index)

vars == <<data, block_size, cache, res, storages, cres, hash_data, level, ty,
          block_statuses, readers, hash_read, key_set, kres, fs, sres, callers,
          rw, slice, zio, pure>>

SpecAdapter == AdapterInit /\ [][AdapterNext]_vars
SpecConcat  == ConcatInit /\ [][ConcatNext]_vars
SpecIntegrity == IntegrityInit /\ [][IntegrityNext]_vars
SpecKeys == KeysInit /\ [][KeysNext]_vars
SpecAgg == AggInit /\ [][AggNext]_vars
SpecNcz == NczInit /\ [][NczNext]_vars
SpecSharedCache == SharedCacheInit /\ [][SharedCacheNext]_vars
SpecRwIo == RwIoInit /\ [][RwIoNext]_vars
SpecSlice == SliceInit /\ [][SliceNext]_vars
SpecNca == NcaInit /\ [][NcaNext]_vars
SpecPrograms == ProgramsInit /\ [][ProgramsNext]_vars
SpecApps == AppsInit /\ [][AppsNext]_vars
SpecVersion == VersionInit /\ [][VersionNext]_vars
SpecWalk == WalkInit /\ [][WalkNext]_vars
SpecLevels == LevelsInit /\ [][LevelsNext]_vars
SpecCtr == CtrInit /\ [][CtrNext]_vars
SpecMakeBlock == MakeBlockInit /\ [][MakeBlockNext]_vars

(***************************************************************************)
(* Claims about the adapter stack (SpecAdapter)                            *)
(***************************************************************************)
\* the bytes of block block_index of the storage
BlockBytes(block_index) ==
    Slice(data, block_index * block_size,
          nth_block_size(Len(data), block_size, block_index))

\* C1: for every storage S, block size n >= 1 (also one that does not divide
\* S.size) and every offset o and length l with o + l <= S.size, a read of
\* LinearAdapterStorage over the block adapter of S succeeds and fills the
\* buffer with exactly bytes o..o+l of S.
C1_LinearReadEqualsInnerRead ==
    (res.op = "read" /\ res.arg + res.len <= Len(data))
        => /\ res.st = "Ok"
           /\ res.buf = Slice(data, res.arg, res.len)

\* C4: for BlockAdapterStorage and the BlockCacheStorage around it, every
\* block index i < block_count() and a buffer of nth_block_size(i) bytes,
\* read_block succeeds and fills the buffer, the short trailing block too.
C4_ReadBlockFillsNthBlockSize ==
    (/\ res.op = "read_block"
     /\ res.arg < block_count(Len(data), block_size)
     /\ res.len = nth_block_size(Len(data), block_size, res.arg))
        => /\ res.st = "Ok"
           /\ res.buf = BlockBytes(res.arg)

\* a read_block call on the cache: the bytes it returns are those of the inner
\* read_block, a hit reads nothing, a miss reads the block once, and a failed
\* inner read caches nothing
C12_Call(block_index, len) ==
    LET bsz == nth_block_size(Len(data), block_size, block_index)
        hit == cache[block_index].present
        inner_read == BlockAdapterStorage_read_block(data, block_size,
                                                     block_index, FreshBuf(bsz))
    IN /\ res'.st = "Ok" =>
            /\ inner_read.st = "Ok"
            /\ res'.buf = Overwrite(FreshBuf(len), 0, inner_read.buf)
       /\ (len >= bsz /\ hit) => (res'.st = "Ok" /\ res'.inner = <<>>)
       /\ (len >= bsz /\ ~hit) => res'.inner = <<block_index>>
       /\ (res'.inner # <<>> /\ res'.st # "Ok") =>
            /\ inner_read.st # "Ok"
            /\ ~cache'[block_index].present
            /\ cache' = cache

\* C12: for every sequence of read_block calls on a BlockCacheStorage with
\* cache evictions in between, each successful call returns the bytes of the
\* inner storage's read_block for that index, a hit issues no inner read, a
\* miss issues exactly one inner read_block for that index, and a failed
\* inner read leaves the cache without an entry for the block.
C12_CacheReadsEqualInnerReads ==
    [][(/\ res'.op = "read_block"
        /\ res'.kind = "BlockCacheStorage"
        /\ BlockRead("BlockCacheStorage", res'.arg, res'.len))
            => C12_Call(res'.arg, res'.len)]_vars

\* the last call hit a block that has been evicted since, while block 0 sits
\* in the cache
C12_Witness ==
    /\ res.op = "read_block" /\ res.kind = "BlockCacheStorage"
    /\ res.st = "Ok" /\ res.inner = <<>>
    /\ res.arg > 0
    /\ ~cache[res.arg].present
    /\ cache[0].present

(***************************************************************************)
(* Claims about the concatenations (SpecConcat)                            *)
(***************************************************************************)
\* C2: whenever ConcatStorageN.read returns success every byte of the buffer
\* holds the byte at its position of the concatenation, and a read whose
\* range extends past the sum of the part sizes does not return success.
C2_ConcatNSuccessMeansFilled ==
    (cres.op = "read" /\ cres.kind = "ConcatStorageN")
        => /\ cres.st = "Ok" =>
                /\ cres.arg + cres.len <= ConcatSize
                /\ cres.buf = Slice(Flatten(storages), cres.arg, cres.len)
           /\ cres.arg + cres.len > ConcatSize => cres.st # "Ok"

\* C3: for every list of parts (empty parts and a single part included) and
\* every offset o and length l with o + l <= the sum of the part sizes,
\* ConcatStorageN.read and ConcatStorage2.read fill the buffer with bytes
\* o..o+l of the parts laid end to end, and get_size is the sum of the sizes.
C3_ConcatReadsInRange ==
    /\ (cres.op = "read" /\ cres.arg + cres.len <= ConcatSize)
            => /\ cres.st = "Ok"
               /\ cres.buf = Slice(Flatten(storages), cres.arg, cres.len)
    /\ cres.op = "get_size" => cres.len = ConcatSize

\* a ConcatStorageN read that starts inside the first part, crosses an empty
\* second part and ends inside the third
C3_Witness ==
    /\ cres.op = "read" /\ cres.kind = "ConcatStorageN" /\ cres.st = "Ok"
    /\ Len(storages) = 3
    /\ storages[2] = <<>>
    /\ 0 < cres.arg /\ cres.arg < Len(storages[1])
    /\ cres.arg + cres.len > Len(storages[1])
    /\ cres.arg + cres.len < ConcatSize

(***************************************************************************)
(* Claims about the verification storage (SpecIntegrity)                   *)
(***************************************************************************)
\* thread r has a finished read_block call
Finished(r) == readers[r].pc = "done"

\* thread r finishes a read_block call in this step
Finishes(r) == readers'[r].pc = "done" /\ readers'[r] # readers[r]

\* the caller's buffer of thread r starts with the bytes the block had when
\* the call read it
ReturnsBlockBytes(r) ==
    LET n == Min(readers[r].len, Len(readers[r].bytes))
    IN Slice(readers[r].buf, 0, n) = Slice(readers[r].bytes, 0, n)

\* C5 as stated: at level IgnoreOnInvalid or Full, a read_block of a block whose bytes
\* were changed in the underlying storage (so that they no longer hash to
\* the stored digest) leaves the verdict of that block Invalid, and fails
\* with IntegrityCheckFailed under Full, whatever reads came before.
C5_ChangedBlockReadsAsInvalid ==
    \A r \in Readers :
        (Finished(r) /\ level # "None" /\ readers[r].mismatch)
            => /\ block_statuses[readers[r].block_index] = "Invalid"
               /\ level = "Full" => readers[r].st = "IntegrityCheckFailed"

\* C5, amended: at level IgnoreOnInvalid or Full, a read_block of a block
\* whose changed bytes no longer hash to the stored digest leaves the verdict
\* Invalid, and fails with IntegrityCheckFailed under Full, unless an earlier
\* read recorded Valid for the block: then the verdict stays Valid and the
\* changed bytes are returned without error.  The read of a short trailing
\* block panics in the block adapter and records no verdict.
C5_ChangedBlockReadsByVerdict ==
    \A r \in Readers :
        (Finished(r) /\ level # "None" /\ readers[r].mismatch)
            => LET b == readers[r].block_index
                   short == nth_block_size(Len(data), block_size, b) < block_size
               IN /\ short =>
                        /\ readers[r].st = "Panic"
                        /\ readers[r].seen = "none"
                        /\ block_statuses[b] = "Unchecked"
                  /\ (~short /\ readers[r].seen = "Valid") =>
                        /\ readers[r].st = "Ok"
                        /\ ReturnsBlockBytes(r)
                        /\ block_statuses[b] = "Valid"
                  /\ (~short /\ readers[r].seen # "Valid") =>
                        /\ readers[r].seen \in {"Unchecked", "Invalid"}
                        /\ block_statuses[b] = "Invalid"
                        /\ level = "Full" =>
                                readers[r].st = "IntegrityCheckFailed"
                        /\ level = "IgnoreOnInvalid" =>
                                readers[r].st = "Ok" /\ ReturnsBlockBytes(r)

\* under Full a changed block is read back without error because an earlier
\* read had recorded Valid for it
C5_Witness ==
    \E r \in Readers :
        /\ Finished(r)
        /\ level = "Full"
        /\ readers[r].mismatch
        /\ readers[r].seen = "Valid"
        /\ readers[r].st = "Ok"
        /\ block_statuses[readers[r].block_index] = "Valid"

\* C6: a verdict that is Invalid is Invalid after every step of every
\* thread, and under Full every read_block call that finishes while the
\* verdict of its block is Invalid fails with IntegrityCheckFailed.
C6_InvalidStaysInvalid ==
    [][/\ \A b \in DOMAIN block_statuses :
              block_statuses[b] = "Invalid" => block_statuses'[b] = "Invalid"
       /\ \A r \in Readers :
              (/\ Finishes(r)
               /\ level = "Full"
               /\ block_statuses[readers'[r].block_index] = "Invalid")
                  => readers'[r].st = "IntegrityCheckFailed"]_vars

\* under Full a read fails on a block that was Invalid, although the bytes
\* it read hash to the stored digest again, while the other thread is
\* between its inner read and the lock
C6_Witness ==
    \E r \in Readers : \E o \in Readers \ {r} :
        /\ Finished(r)
        /\ level = "Full"
        /\ readers[r].st = "IntegrityCheckFailed"
        /\ ~readers[r].mismatch
        /\ block_statuses[readers[r].block_index] = "Invalid"
        /\ readers[o].pc = "verify"
        /\ readers[o].block_index = readers[r].block_index

\* C7: a read_block of a block whose bytes do not hash to the stored digest
\* ends as the level says: None returns the bytes without error, records no
\* verdict and never reads the hash storage; IgnoreOnInvalid returns the
\* bytes without error and records Invalid; Full fails with
\* IntegrityCheckFailed.
C7_MismatchOutcomeByLevel ==
    \A r \in Readers :
        (Finished(r) /\ readers[r].mismatch)
            => /\ level = "None" =>
                    /\ readers[r].st = "Ok"
                    /\ ReturnsBlockBytes(r)
                    /\ \A b \in DOMAIN block_statuses :
                            block_statuses[b] = "Unchecked"
                    /\ ~hash_read
               /\ level = "IgnoreOnInvalid" =>
                    /\ readers[r].st = "Ok"
                    /\ ReturnsBlockBytes(r)
                    /\ block_statuses[readers[r].block_index] = "Invalid"
               /\ level = "Full" =>
                    readers[r].st = "IntegrityCheckFailed"

(***************************************************************************)
(* Claims about the key set (SpecKeys)                                     *)
(***************************************************************************)
\* the revision and the key array of the lookup that kres reports
LookupRevision ==
    master_key_revision([key_generation_1 |-> kres.key_generation_1,
                         key_generation_2 |-> kres.key_generation_2])

\* the key the lookup of kres asked for is not in the keyset
KeyNotHeld ==
    \/ /\ kres.lookup = "title_kek"
       /\ ~(LookupRevision \in DOMAIN key_set.title_kek
                /\ key_set.title_kek[LookupRevision])
    \/ /\ kres.lookup = "key_area_key"
       /\ LET kek_array == key_set[key_area_key_name(kres.key_area_key_index)]
          IN ~(LookupRevision \in DOMAIN kek_array /\ kek_array[LookupRevision])

\* C10: for every master-key revision 0..254 that a header yields and every
\* key-area-key index, the lookup of a title-KEK or key-area key that the
\* keyset does not hold fails with MissingKey naming the key and its index.
C10_MissingKeyForEveryRevision ==
    (kres.called /\ KeyNotHeld)
        => /\ kres.res.st = "MissingKey"
           /\ kres.res.index = LookupRevision
           /\ kres.res.key_name =
                IF kres.lookup = "title_kek" THEN "title_kek"
                ELSE key_area_key_name(kres.key_area_key_index)

\* the revision that the claim names: max(key_generation_1,
\* key_generation_2) - 1, and 0 when both generations are 0
ClaimedRevision ==
    LET generation == IF kres.key_generation_1 >= kres.key_generation_2
                      THEN kres.key_generation_1 ELSE kres.key_generation_2
    IN IF generation >= 1 THEN generation - 1 ELSE 0

\* C17: Nca::new selects the content key in a fixed order.  A header that
\* parsed without decryption gives Plaintext and consults no key.  Otherwise
\* a non-empty rights id consults the title key of that rights id and then
\* the title-KEK of revision max(key_generation_1, key_generation_2) - 1
\* (0 when both are 0), never the key-area key, and gives RightsId when both
\* are held.  Only an empty rights id consults the key-area key, of the same
\* revision, and gives KeyArea when it is held.
C17_KeySelectionOrder ==
    kres.called =>
        /\ kres.is_decrypted =>
            /\ kres.key = "Plaintext"
            /\ kres.consulted = <<>>
            /\ kres.res.st = "Ok"
        /\ (~kres.is_decrypted /\ kres.rights_id # 0) =>
            /\ kres.consulted \in
                { << Lookup("title_key", kres.rights_id) >>,
                  << Lookup("title_key", kres.rights_id),
                     Lookup("title_kek", ClaimedRevision) >> }
            /\ Len(kres.consulted) = 1 <=>
                    kres.rights_id \notin key_set.title_keys
            /\ kres.key = IF kres.res.st = "Ok" THEN "RightsId" ELSE "none"
            /\ kres.res.st = "Ok" <=>
                    /\ kres.rights_id \in key_set.title_keys
                    /\ ClaimedRevision < TITLE_KEK_COUNT
                    /\ key_set.title_kek[ClaimedRevision]
        /\ (~kres.is_decrypted /\ kres.rights_id = 0) =>
            /\ kres.consulted = << Lookup("key_area_key", ClaimedRevision) >>
            /\ kres.key = IF kres.res.st = "Ok" THEN "KeyArea" ELSE "none"

\* an encrypted header with a rights id and both key generations 0 got the
\* RightsId key from the title-KEK of revision 0, in a keyset that also holds
\* the key-area key of that revision
C17_Witness ==
    /\ kres.called
    /\ ~kres.is_decrypted
    /\ kres.rights_id # 0
    /\ kres.key_generation_1 = 0 /\ kres.key_generation_2 = 0
    /\ kres.key = "RightsId"
    /\ kres.consulted[2] = Lookup("title_kek", 0)
    /\ key_set[key_area_key_name(kres.key_area_key_index)][0]

(***************************************************************************)
(* Claims about the aggregator (SpecAgg)                                   *)
(***************************************************************************)
\* the positions of the .nca files in the walk
NcaFiles == {i \in 1..Len(fs) : fs[i].suffix \in {"nca", "cnmt.nca"}}

\* the keyset that the NCAs of the last operation were constructed with
KeysInUse ==
    IF sres.op = "SwitchFs::new" THEN import_tickets(key_set, fs).key_set
    ELSE key_set

\* the last operation walked the .nca files (its ticket import succeeded)
WalkedNcas ==
    \/ sres.op = "nca_set_from_fs"
    \/ sres.op = "SwitchFs::new" /\ import_tickets(key_set, fs).st = "Ok"

\* Nca::new returns an error for the file at position i
NcaFails(i) == Nca_new(KeysInUse, fs[i]).st = "Err"

\* the file at position i has a content id for a name and constructs
NcaConstructs(i) == fs[i].stem # 0 /\ Nca_new(KeysInUse, fs[i]).st = "Ok"

\* the error of the NCA set that the last operation reports
NcaSetError == IF sres.op = "SwitchFs::new" THEN sres.err.source ELSE sres.err

\* the last operation failed in its NCA set phase
NcaSetFailed ==
    /\ sres.st = "Err"
    /\ sres.op = "SwitchFs::new" => sres.err.kind = "NcaSetParse"

\* C8 as stated: when Nca::new fails for a .nca file, the NCA is skipped:
\* nca_set_from_fs and SwitchFs::new do not fail over it, and the NCA set
\* holds every .nca file that constructs.
C8_FailedNcaIsSkipped ==
    (/\ WalkedNcas
     /\ \E i \in NcaFiles : NcaFails(i)
     /\ \A i \in NcaFiles : NcaFails(i) \/ NcaConstructs(i))
        => /\ ~NcaSetFailed
           /\ sres.op = "nca_set_from_fs" =>
                /\ sres.st = "Ok"
                /\ DOMAIN sres.nca_set =
                        {fs[i].stem : i \in {j \in NcaFiles : NcaConstructs(j)}}

\* C8, amended: when Nca::new fails for a .nca file and every .nca file
\* before it in the walk constructs, nca_set_from_fs stops there with
\* NcaParse naming the content id of that file and wrapping its error, no
\* NCA set is returned and no later file is parsed; SwitchFs::new fails with
\* NcaSetParse wrapping that error.
C8_FirstFailedNcaAborts ==
    \A i \in NcaFiles :
        (/\ WalkedNcas
         /\ fs[i].stem # 0
         /\ NcaFails(i)
         /\ \A j \in NcaFiles : j < i => NcaConstructs(j))
            => /\ NcaSetFailed
               /\ NcaSetError = AggError("NcaParse", fs[i].stem,
                                         Nca_new(KeysInUse, fs[i]).err)
               /\ sres.nca_set = <<>>
               /\ sres.title_set = <<>>
               /\ Len(sres.log) = Cardinality({j \in NcaFiles : j <= i})
               /\ \A j \in NcaFiles : j <= i =>
                    sres.log[Cardinality({k \in NcaFiles : k <= j})] = fs[j].stem

\* SwitchFs::new fails over the second of three .nca files: the first one
\* constructs and the third, which would construct, is never parsed
C8_Witness ==
    /\ sres.op = "SwitchFs::new"
    /\ NcaFiles = {1, 2, 3}
    /\ NcaConstructs(1) /\ NcaFails(2) /\ NcaConstructs(3)
    /\ NcaSetFailed
    /\ sres.log = <<fs[1].stem, fs[2].stem>>

\* the metas of the NCA set whose CNMT type is unsupported / whose title
\* parse_content builds
MetaIds == {id \in DOMAIN sres.nca_set :
                sres.nca_set[id].hdr.content_type = "Meta"}
UnsupportedMetas ==
    {id \in MetaIds :
        parse_content(id, sres.nca_set[id], sres.nca_set).err.kind
            = "MetaUnsupportedType"}
SupportedMetas ==
    {id \in MetaIds :
        parse_content(id, sres.nca_set[id], sres.nca_set).st = "Ok"}

\* C9: when the NCA set holds a meta NCA of an unsupported CNMT type next to
\* supported ones, content_set_from_nca_set does not abort: it returns the
\* content set of the supported titles.
C9_UnsupportedMetaIsSkipped ==
    (/\ sres.op = "content_set_from_nca_set"
     /\ UnsupportedMetas # {}
     /\ SupportedMetas # {}
     /\ MetaIds = UnsupportedMetas \cup SupportedMetas)
        => /\ sres.st = "Ok"
           /\ DOMAIN sres.title_set =
                {parse_content(id, sres.nca_set[id], sres.nca_set).key :
                    id \in SupportedMetas}

\* the positions of the .tik files that supply the title key of rights_id
TicketsOf(rights_id) ==
    {t \in 1..Len(fs) : /\ fs[t].suffix = "tik"
                        /\ fs[t].ticket.parses
                        /\ fs[t].ticket.title_key_type = "Common"
                        /\ fs[t].ticket.rights_id = rights_id}

\* the .nca files with a rights id whose title key the keyset handed to
\* SwitchFs::new lacks and a ticket of the filesystem supplies
NcasKeyedByTicket ==
    {i \in NcaFiles : /\ has_rights_id(fs[i].hdr)
                      /\ ~fs[i].hdr.plaintext
                      /\ fs[i].hdr.rights_id \notin key_set.title_keys
                      /\ TicketsOf(fs[i].hdr.rights_id) # {}}

\* C16: SwitchFs::new imports every .tik file before it constructs the first
\* NCA: when the ticket import succeeds, no NCA whose title key a ticket of
\* the same filesystem supplies fails with MissingTitleKey, whether the
\* ticket comes before or after it in the walk, and an NCA set that is
\* returned holds it with the content key of its rights id.
C16_TicketsImportedBeforeNcas ==
    \A i \in NcasKeyedByTicket :
        (/\ sres.op = "SwitchFs::new"
         /\ sres.err.kind # "TicketImport")
            => /\ ~(/\ NcaSetFailed
                    /\ NcaSetError.source.kind = "MissingTitleKey")
               /\ fs[i].stem \in DOMAIN sres.nca_set =>
                    sres.nca_set[fs[i].stem].content_key = "RightsId"
               /\ sres.st = "Ok" => fs[i].stem \in DOMAIN sres.nca_set

\* SwitchFs::new returned an NCA set that holds an NCA of rights id 1 whose
\* only ticket comes after it in the walk
C16_Witness ==
    /\ sres.op = "SwitchFs::new"
    /\ sres.st = "Ok"
    /\ \E i \in NcasKeyedByTicket :
        /\ \A t \in TicketsOf(fs[i].hdr.rights_id) : t > i
        /\ fs[i].stem \in DOMAIN sres.nca_set

(***************************************************************************)
(* Claims about the streaming NCZ body (SpecNcz)                           *)
(***************************************************************************)
\* the last read was a read of the body inside the decompressed stream
BodyReadInRange ==
    /\ res.op = "read" /\ res.kind = "NczBodyStorage"
    /\ res.arg >= NCA_HEADERS_SIZE
    /\ (res.arg - NCA_HEADERS_SIZE) + res.len <= zio.size

\* C11: every read (offset, len) of the streaming NCZ body with offset + len
\* inside the decompressed stream returns exactly bytes offset..offset+len of
\* the fully decompressed stream, whatever reads (forward, backward,
\* repeated) came before it.
C11_BodyReadEqualsDecompressedSlice ==
    BodyReadInRange
        => /\ res.st = "Ok"
           /\ res.buf = Slice(data, res.arg - NCA_HEADERS_SIZE, res.len)

\* the StreamingZstdStorage under the cache does return the slice of the
\* decompressed stream for every read inside it, wherever the decoder stands
StreamReadEqualsDecompressedSlice ==
    (res.op = "read" /\ res.kind = "StreamingZstdStorage")
        => IF res.arg + res.len <= zio.size
           THEN /\ res.st = "Ok"
                /\ res.buf = Slice(data, res.arg, res.len)
                /\ zio.position = res.arg + res.len
                /\ zio.io = zio.position
           ELSE res.st = "OutOfBounds"

(***************************************************************************)
(* Claims about a BlockCacheStorage shared by threads (SpecSharedCache)    *)
(***************************************************************************)
\* every cache entry holds the bytes of its block
EntriesEqualInnerBytes ==
    \A block_index \in DOMAIN cache :
        cache[block_index].present
            => cache[block_index].content = BlockBytes(block_index)

\* a finished call that was given room for its block
CallWithRoom(t) ==
    /\ callers[t].pc = "done"
    /\ callers[t].len >= nth_block_size(Len(data), block_size,
                                        callers[t].block_index)

\* C13: under every interleaving of concurrent read_block calls of several
\* threads on one BlockCacheStorage, every cache entry equals the inner
\* storage's bytes of its block (one entry per block index), and every call
\* returns those bytes.
C13_ConcurrentCallsReturnInnerBytes ==
    /\ EntriesEqualInnerBytes
    /\ \A t \in Threads :
          CallWithRoom(t)
              => /\ callers[t].st = "Ok"
                 /\ callers[t].buf =
                        Overwrite(FreshBuf(callers[t].len), 0,
                                  BlockBytes(callers[t].block_index))

\* what does hold: the entries equal the inner bytes, and every call returns
\* them except the calls on a short last block, which end in the block
\* adapter's panic after a miss
SharedCacheReturnsBytesOfFullBlocks ==
    /\ EntriesEqualInnerBytes
    /\ \A t \in Threads :
          CallWithRoom(t)
              => IF nth_block_size(Len(data), block_size,
                                   callers[t].block_index) = block_size
                 THEN /\ callers[t].st = "Ok"
                      /\ callers[t].buf = BlockBytes(callers[t].block_index)
                 ELSE callers[t].st = "Panic" /\ callers[t].inner

\* two threads missed on the same block and both read the inner storage
BothThreadsReadInner ==
    /\ callers["t1"].pc = "done" /\ callers["t2"].pc = "done"
    /\ callers["t1"].block_index = callers["t2"].block_index
    /\ callers["t1"].inner /\ callers["t2"].inner
    /\ callers["t1"].st = "Ok" /\ callers["t2"].st = "Ok"

(***************************************************************************)
(* Claims about RwIoStorage (SpecRwIo)                                     *)
(***************************************************************************)
\* C14: after any sequence of write and set_size calls, every read(o, buf)
\* with o + buf.len() <= get_size() succeeds and writes all buf.len() bytes,
\* also after set_size has set a size larger than the length of the
\* underlying IO object.
C14_InRangeReadFillsBuffer ==
    (res.op = "read" /\ res.kind = "RwIoStorage"
        /\ res.arg + res.len <= res.size)
        => /\ res.st = "Ok"
           /\ \A i \in 1..res.len : res.buf[i] # Unwritten

\* reads inside the IO object do succeed, and a write at the far end of a
\* grown storage makes the bytes before it readable as zeros
RwReadInsideIoSucceeds ==
    (res.op = "read" /\ res.kind = "RwIoStorage")
        => /\ res.arg + res.len > res.size => res.st = "OutOfBounds"
           /\ (res.arg + res.len <= res.size /\ res.arg + res.len <= Len(rw.io))
                => (res.st = "Ok" /\ res.buf = Slice(rw.io, res.arg, res.len))
           /\ (res.arg + res.len <= res.size /\ res.arg + res.len > Len(rw.io)
               /\ res.len > 0)
                => res.st = "Io"

(***************************************************************************)
(* Claims about SliceStorage (SpecSlice)                                   *)
(***************************************************************************)
\* C15: SliceStorage::new(inner, offset, size) succeeds exactly when
\* offset + size <= inner.size, the sum taken without wrap-around; afterwards
\* every read(o, buf) either has o + buf.len() <= size and reads inner bytes
\* offset+o .. offset+o+buf.len(), or fails with OutOfBounds without reading
\* inner: no read through the slice touches inner outside offset..offset+size.
C15_SliceStaysInsideItsRange ==
    /\ slice.st # "none"
        => (slice.st = "Ok" <=> slice.offset + slice.size <= Len(data))
    /\ (res.op = "read" /\ res.kind = "SliceStorage")
        => \/ /\ res.arg + res.len <= slice.size
              /\ res.st = "Ok"
              /\ res.buf = Slice(data, slice.offset + res.arg, res.len)
              /\ res.inner = <<slice.offset + res.arg>>
           \/ /\ res.arg + res.len > slice.size
              /\ res.st = "OutOfBounds"
              /\ res.inner = <<>>

\* as long as no sum passes MaxWord the construction and the reads are as
\* the claim says
SliceWithoutOverflow ==
    /\ (slice.st # "none" /\ slice.offset + slice.size <= MaxWord)
        => (slice.st = "Ok" <=> slice.offset + slice.size <= Len(data))
    /\ (/\ res.op = "read" /\ res.kind = "SliceStorage"
        /\ slice.offset + slice.size <= MaxWord
        /\ res.arg + res.len <= MaxWord)
        => IF res.arg + res.len <= slice.size
           THEN /\ res.st = "Ok"
                /\ res.buf = Slice(data, slice.offset + res.arg, res.len)
           ELSE res.st = "OutOfBounds" /\ res.inner = <<>>

(***************************************************************************)
(* Claims about Nca::new and get_fs (SpecNca)                              *)
(***************************************************************************)
\* the header of the storage that Nca::new is called on
NcaHdr == fs[1].hdr

\* parse_headers gets as far as the loop over the sections: the header
\* parsed as it was, or the header key is held and the decrypted header
\* parses and is not of a format whose decryption is unimplemented
SectionsChecked ==
    \/ NcaHdr.plaintext
    \/ /\ key_set.header_key
       /\ NcaHdr.valid
       /\ NcaHdr.magic \notin {"Nca0", "Nca1"}

\* the enabled sections whose FS header does not hash / hashes but does not
\* parse
Unhashed == NcaHdr.enabled \cap NcaHdr.bad_hash
Unparsed == (NcaHdr.enabled \cap NcaHdr.unparsable) \ NcaHdr.bad_hash

\* C18 as stated: Nca::new fails with FsHeaderHashMismatch{index} for the
\* lowest-index enabled section whose FS header does not hash, on both
\* paths; a corrupt FS header of a disabled section causes no error.
C18_LowestUnhashedSectionIsReported ==
    (sres.op = "Nca::new" /\ SectionsChecked)
        => /\ Unhashed # {} =>
                /\ sres.st = "Err"
                /\ sres.err = NcaError("FsHeaderHashMismatch", "",
                                       MinOf(Unhashed))
           /\ (Unhashed = {} /\ Unparsed = {}) =>
                sres.err.kind \notin {"FsHeaderHashMismatch", "FsHeaderParsing"}

\* C18, amended: Nca::new checks the enabled sections in index order, the
\* hash of an FS header before its parse, and stops at the first failure.
\* It fails with FsHeaderHashMismatch{index} for the lowest-index enabled
\* section whose FS header does not hash when every enabled section below
\* it parses, and with FsHeaderParsing{index} for the lowest-index enabled
\* section that hashes and does not parse when every enabled section below
\* it hashes, on both paths; a corrupt FS header of a disabled section
\* causes no error.
C18_FirstFailingSectionIsReported ==
    (sres.op = "Nca::new" /\ SectionsChecked)
        => /\ (/\ Unhashed # {}
               /\ \A j \in Unparsed : j > MinOf(Unhashed)) =>
                /\ sres.st = "Err"
                /\ sres.err = NcaError("FsHeaderHashMismatch", "",
                                       MinOf(Unhashed))
           /\ (/\ Unparsed # {}
               /\ \A j \in Unhashed : j > MinOf(Unparsed)) =>
                /\ sres.st = "Err"
                /\ sres.err = NcaError("FsHeaderParsing", "", MinOf(Unparsed))
           /\ (Unhashed = {} /\ Unparsed = {}) =>
                sres.err.kind \notin {"FsHeaderHashMismatch", "FsHeaderParsing"}

\* on the decrypted path, with section 0 disabled and its FS header corrupt,
\* sections 1 and 2 enabled and neither hashing, Nca::new reported section 1
C18_Witness ==
    /\ sres.op = "Nca::new"
    /\ ~NcaHdr.plaintext
    /\ 0 \notin NcaHdr.enabled /\ 0 \in NcaHdr.bad_hash
    /\ {1, 2} \subseteq Unhashed
    /\ sres.err = NcaError("FsHeaderHashMismatch", "", 1)

\* Nca::new returned an NCA of a content type other than Program
NonProgramNca ==
    /\ sres.op \in {"Nca::new", "get_fs"}
    /\ sres.st = "Ok"
    /\ NcaHdr.content_type # "Program"

\* C19: every NCA that Nca::new returns with a content type other than
\* Program has section 0 enabled and sections 1 to 3 disabled, so get_fs(Data)
\* on it resolves to section 0 and returns its file system, and get_fs(Code)
\* and get_fs(Logo) return nothing.
C19_NonProgramNcaHasOnlySection0 ==
    NonProgramNca
        => /\ NcaHdr.enabled = {0}
           /\ (sres.op = "get_fs" /\ sres.ty = "Data") =>
                sres.index = 0 /\ sres.some
           /\ (sres.op = "get_fs" /\ sres.ty \in {"Code", "Logo"}) =>
                ~sres.some

\* what the assertion of Nca::new does ensure: an NCA of a content type other
\* than Program that it returns has exactly one enabled section; get_fs(Data)
\* looks at section 0 only and returns a file system exactly when that is
\* the enabled one, and get_fs(Code) and get_fs(Logo) return nothing
NonProgramNcaHasOneSection ==
    NonProgramNca
        => /\ Cardinality(NcaHdr.enabled) = 1
           /\ (sres.op = "get_fs" /\ sres.ty = "Data") =>
                sres.index = 0 /\ (sres.some <=> NcaHdr.enabled = {0})
           /\ (sres.op = "get_fs" /\ sres.ty \in {"Code", "Logo"}) =>
                ~sres.some

\* Nca::new returned a Data NCA whose only enabled section is section 1, and
\* get_fs(Data) on it returned nothing
DataNcaWithoutDataFs ==
    /\ NonProgramNca
    /\ NcaHdr.enabled = {1}
    /\ sres.op = "get_fs" /\ sres.ty = "Data" /\ ~sres.some

(***************************************************************************)
(* Claims about parse_programs (SpecPrograms)                              *)
(***************************************************************************)
\* the content types that the match of parse_programs ignores
IgnoredContentTypes == {"Meta", "Data", "LegalInformation", "DeltaFragment"}

\* the CNMT without its entries of the ignored types
WithoutIgnored(meta) ==
    [meta EXCEPT !.content_info =
        SelectSeq(@, LAMBDA c : c.ty \notin IgnoredContentTypes)]

\* the id offsets that carry an entry of one of the given types
OffsetsOf(meta, types) ==
    {meta.content_info[i].id_offset :
        i \in {j \in 1..Len(meta.content_info) :
                    meta.content_info[j].ty \in types}}

\* C20: parse_programs yields one ProgramInfo per id_offset that carries a
\* Program or Control entry, and entries of the other types (Meta, Data,
\* LegalInformation, DeltaFragment) are ignored: the result is the one that
\* the CNMT without those entries gives, in its programs and in whether
\* parsing succeeds.
C20_IgnoredTypesChangeNothing ==
    sres.op = "parse_programs"
        => LET r == parse_programs(WithoutIgnored(ProgramsMeta), ProgramsNcaSet)
           IN /\ sres.st = r.st
              /\ sres.programs = r.programs
              /\ sres.st = "Ok" =>
                    {sres.programs[i].id_offset : i \in DOMAIN sres.programs}
                        = OffsetsOf(ProgramsMeta, {"Program", "Control"})

\* what does hold: entries of the ignored types change nothing when each of
\* them sits at an id_offset that also carries a Program, Control or
\* HtmlDocument entry, and a successful parse yields one ProgramInfo per
\* id_offset of the content_info, in ascending order
IgnoredTypesAtUsedOffsetsChangeNothing ==
    (/\ sres.op = "parse_programs"
     /\ OffsetsOf(ProgramsMeta, IgnoredContentTypes) \subseteq
            OffsetsOf(ProgramsMeta, {"Program", "Control", "HtmlDocument"}))
        => LET r == parse_programs(WithoutIgnored(ProgramsMeta), ProgramsNcaSet)
           IN /\ sres.st = r.st
              /\ sres.err = r.err
              /\ sres.programs = r.programs
              /\ sres.st = "Ok" =>
                    {sres.programs[i].id_offset : i \in DOMAIN sres.programs}
                        = OffsetsOf(ProgramsMeta, {"Program", "Control"})

\* a LegalInformation entry at an id_offset of its own made parse_programs
\* fail with MissingProgramContent although the Program and Control entries
\* of the other id_offset make a program
IgnoredEntryFailsTheParse ==
    /\ sres.op = "parse_programs"
    /\ sres.st = "Err"
    /\ sres.err.source = "MissingProgramContent"
    /\ parse_programs(WithoutIgnored(ProgramsMeta), ProgramsNcaSet).st = "Ok"
    /\ Len(WithoutIgnored(ProgramsMeta).content_info) = 2


(***************************************************************************)
(* The application set                                                     *)
(***************************************************************************)
\* build_application_set has returned an application set
AppsBuilt == sres.op = "build_application_set" /\ sres.st = "Ok"

\* the contents of the content set it was called on
AppsContents == {sres.title_set[k] : k \in DOMAIN sres.title_set}

\* an Application meta with the application_id of content c is in the
\* content set
HasApplication(c) ==
    \E a \in AppsContents : a.ty = "Application" /\ a.id = c.application_id

\* the patch is a version of the application it names
PatchAttached(patch) ==
    /\ patch.application_id \in DOMAIN sres.applications
    /\ patch.version
           \in DOMAIN sres.applications[patch.application_id].versions
    /\ LET v == sres.applications[patch.application_id].versions[patch.version]
       IN v.kind = "Patch" /\ v.meta_content_id = patch.meta_content_id

\* the add-on is among the addons of the application it names
AddonAttached(addon) ==
    /\ addon.application_id \in DOMAIN sres.applications
    /\ addon.id \in DOMAIN sres.applications[addon.application_id].addons
    /\ sres.applications[addon.application_id].addons[addon.id].content_id
           = addon.content

\* the content set without the patches and add-ons whose application is
\* absent
WithoutOrphans ==
    [k \in {k \in DOMAIN sres.title_set :
                \/ sres.title_set[k].ty = "Application"
                \/ HasApplication(sres.title_set[k])} |-> sres.title_set[k]]

\* C21: whenever build_application_set returns, a Patch or an add-on Data of
\* the content set is attached to an Application exactly when an Application
\* meta with its application_id is in the content set, wherever the content
\* set lists it; one whose application is absent is skipped, and the
\* applications are those built from the content set without it
C21_AttachedExactlyWhenApplicationExists ==
    AppsBuilt =>
        /\ \A c \in AppsContents :
             /\ c.ty = "Patch" => (PatchAttached(c) <=> HasApplication(c))
             /\ c.ty = "AddOnContent" =>
                    (AddonAttached(c) <=> HasApplication(c))
             /\ (c.ty # "Application" /\ ~HasApplication(c))
                    => c.meta_content_id \in sres.skipped
        /\ build_application_set(WithoutOrphans).applications
               = sres.applications

\* a patch listed before its application is attached to it while a patch of
\* an absent application is skipped
C21_Witness ==
    /\ AppsBuilt
    /\ \E c \in AppsContents :
         c.ty = "Patch" /\ c.id < c.application_id /\ PatchAttached(c)
    /\ \E c \in AppsContents :
         c.ty = "Patch" /\ ~HasApplication(c)
             /\ c.meta_content_id \in sres.skipped


\* the versions of the applications of the set, each with its application
AppVersions ==
    UNION {{[app |-> sres.applications[a],
             version |-> sres.applications[a].versions[v]] :
                v \in DOMAIN sres.applications[a].versions} :
           a \in DOMAIN sres.applications}

\* C22: in the application set that build_application_set returns, every
\* program of a Patch version has as base_content_id the content_id of the
\* program of the base version whose id is the application's id combined
\* with the program's id_offset, and no program of a base version has a
\* base_content_id
C22_BaseContentIdIsTheBaseProgram ==
    AppsBuilt =>
        \A av \in AppVersions :
            LET base_programs ==
                    av.app.versions[av.app.base_version].programs
            IN \A id \in DOMAIN av.version.programs :
                 IF av.version.kind = "Patch"
                 THEN /\ ProgramId_new(av.app.id, id % 256)
                             \in DOMAIN base_programs
                      /\ av.version.programs[id].base_content_id
                             = base_programs[ProgramId_new(av.app.id, id % 256)]
                                   .content_id
                 ELSE av.version.programs[id].base_content_id = NoId

\* a patch of two programs is attached, and each program's base content is
\* another content than its own and than the other program's
C22_Witness ==
    /\ AppsBuilt
    /\ \E av \in AppVersions :
         /\ av.version.kind = "Patch"
         /\ Cardinality(DOMAIN av.version.programs) = 2
         /\ Cardinality({av.version.programs[id].base_content_id :
                            id \in DOMAIN av.version.programs}) = 2
         /\ \A id \in DOMAIN av.version.programs :
                av.version.programs[id].base_content_id
                    # av.version.programs[id].content_id


\* content_set_from_nca_set has returned a content set
ContentSetParsed ==
    /\ sres.op \in {"content_set_from_nca_set", "build_application_set"}
    /\ sres.op = "content_set_from_nca_set" => sres.st = "Ok"

\* C23: no Application or Patch of a content set that parsed has an empty
\* program list, and every ApplicationVersion of the application set built
\* from it has at least one program
C23_EveryVersionHasAProgram ==
    /\ ContentSetParsed =>
          \A c \in AppsContents :
              c.ty \in {"Application", "Patch"} => Len(c.programs) >= 1
    /\ AppsBuilt =>
          \A av \in AppVersions : DOMAIN av.version.programs # {}

\* an application set with a base version and a patch version has been built
C23_Witness ==
    /\ AppsBuilt
    /\ \E av \in AppVersions : av.version.kind = "Patch"
    /\ \E av \in AppVersions : av.version.kind = "Base"

\* C30: build_application_set returns an application set for every content
\* set that content_set_from_nca_set produces
C30_BuildApplicationSetReturns ==
    sres.op = "build_application_set" => sres.st = "Ok"

\* where it holds: build_application_set returns whenever no two
\* Application metas share an id, no patch has the version of its
\* application or of another of its patches, no two add-ons of an
\* application share an id, and every program of a patch has its id_offset
\* among the programs of the application
AppsWellFormed ==
    /\ \A a, b \in AppsContents :
         (a.ty = "Application" /\ b.ty = "Application" /\ a.id = b.id)
             => a = b
    /\ \A a, b \in AppsContents :
         (/\ a.ty = "Patch"
          /\ b.ty \in {"Application", "Patch"}
          /\ HasApplication(a)
          /\ a.application_id = (IF b.ty = "Patch" THEN b.application_id
                                 ELSE b.id)
          /\ a.version = b.version)
             => a = b
    /\ \A a, b \in AppsContents :
         (/\ a.ty = "AddOnContent" /\ b.ty = "AddOnContent"
          /\ HasApplication(a)
          /\ a.application_id = b.application_id /\ a.id = b.id)
             => a = b
    /\ \A a, b \in AppsContents :
         (a.ty = "Patch" /\ b.ty = "Application" /\ b.id = a.application_id)
             => {a.programs[i].id_offset : i \in DOMAIN a.programs}
                    \subseteq {b.programs[i].id_offset : i \in DOMAIN b.programs}

WellFormedContentSetIsBuilt ==
    (sres.op = "build_application_set" /\ AppsWellFormed) => sres.st = "Ok"


(***************************************************************************)
(* Version                                                                 *)
(***************************************************************************)
\* C27: for every u32 with big-endian bytes (v0, v1, v2, v3), v0 = 255
\* included, Version::from(value).into_parts() returns (v0 + 1, v1, v2)
C27_IntoPartsAddsOneToTopByte ==
    pure.op = "into_parts" =>
        \A v0, v1, v2, v3 \in VersionBytes :
            (/\ pure.value.hi = v0 * 256 + v1
             /\ pure.value.lo = v2 * 256 + v3)
                => pure.st = "Ok" /\ pure.parts = << v0 + 1, v1, v2 >>

\* where it holds: for a top byte below 255
IntoPartsBelowTopByte255 ==
    pure.op = "into_parts" =>
        \A v0, v1, v2, v3 \in VersionBytes :
            (/\ pure.value.hi = v0 * 256 + v1
             /\ pure.value.lo = v2 * 256 + v3
             /\ v0 < 255)
                => pure.st = "Ok" /\ pure.parts = << v0 + 1, v1, v2 >>

\* with the top byte 255 the call panics or returns 0 for the first part
IntoPartsOfTopByte255 ==
    (pure.op = "into_parts" /\ pure.value.hi \div 256 = 255) =>
        IF pure.overflow_checks THEN pure.st = "Panic"
        ELSE pure.st = "Ok" /\ pure.parts[1] = 0


(***************************************************************************)
(* The header region of the NCZ body                                       *)
(***************************************************************************)
\* C24: every read of NczBodyStorage at an offset below NCA_HEADERS_SIZE
\* fails with Inaccessible carrying that offset, whatever the length, and
\* touches neither the cache nor the decoder; every read at an offset from
\* NCA_HEADERS_SIZE on is the read of the decompressed body at
\* offset - NCA_HEADERS_SIZE; get_size is the size of the decompressed body
\* plus NCA_HEADERS_SIZE
C24_BodyIsShiftedByTheHeaders ==
    /\ [][(res' # res /\ res'.kind = "NczBodyStorage") =>
            IF res'.arg < NCA_HEADERS_SIZE
            THEN /\ res'.st = "Inaccessible"
                 /\ res'.offset = res'.arg
                 /\ res'.buf = FreshBuf(res'.len)
                 /\ cache' = cache
                 /\ zio'.position = zio.position
            ELSE \E r \in {NczLinearAdapter_read([zio EXCEPT !.resets = 0],
                               data, block_size, cache,
                               res'.arg - NCA_HEADERS_SIZE,
                               FreshBuf(res'.len))} :
                    /\ res'.st = r.st
                    /\ res'.buf = r.buf
                    /\ cache' = r.cache
                    /\ zio' = r.z]_vars
    /\ [](NczBodyStorage_get_size(zio) = Len(data) + NCA_HEADERS_SIZE)

\* a read of two bytes or more at the last offset of the header region has
\* failed with Inaccessible, after a read of the body filled the cache
C24_Witness ==
    /\ res.op = "read" /\ res.kind = "NczBodyStorage"
    /\ res.arg = NCA_HEADERS_SIZE - 1
    /\ res.len >= 2
    /\ res.st = "Inaccessible"
    /\ \E block_index \in DOMAIN cache : cache[block_index] # NoEntry


(***************************************************************************)
(* Construction of the block variant of the NCZ body                       *)
(***************************************************************************)
\* the block header has parsed and make_block has run
MadeBlock == pure.op = "make_block" /\ pure.block_header.parses

ExponentInRange ==
    /\ pure.block_header.block_size_exponent >= 14
    /\ pure.block_header.block_size_exponent <= 32

SizesAddUp ==
    pure.position + SeqSum(pure.block_header.compressed_block_sizes)
        = pure.total_size

\* C25: make_block fails with InvalidBlockSizeExponent, naming the exponent,
\* whenever the exponent is outside [14, 32], whatever the sizes; with the
\* exponent in range it fails with SizeMismatch exactly when the end offset
\* of the block header plus the sum of the compressed block sizes differs
\* from the total size
C25_ExponentCheckedBeforeSize ==
    MadeBlock =>
        IF ~ExponentInRange
        THEN /\ pure.st = "InvalidBlockSizeExponent"
             /\ pure.err.exponent = pure.block_header.block_size_exponent
        ELSE /\ pure.st = "SizeMismatch" <=> ~SizesAddUp
             /\ pure.st = "SizeMismatch" =>
                    /\ pure.err.actual = pure.total_size
                    /\ pure.err.expected
                           = pure.position
                               + SeqSum(pure.block_header.compressed_block_sizes)
             /\ pure.st # "InvalidBlockSizeExponent"

\* a header with exponent 33 whose sizes do not add up either has been
\* refused for its exponent
C25_Witness ==
    /\ MadeBlock
    /\ pure.block_header.block_size_exponent = 33
    /\ ~SizesAddUp
    /\ pure.st = "InvalidBlockSizeExponent"


(***************************************************************************)
(* The AES-CTR counter                                                     *)
(***************************************************************************)
\* a block has been read through the AES-CTR storage, singly or in bulk
CtrRead == pure.op \in {"read_block", "read_block_bulk"}

\* C26: the counter of the block at index N, read singly or in a bulk read
\* that starts at an earlier index, is the 128-bit big-endian value of
\* (upper_counter * 2^64 + start_offset / 16) + N, and the addition neither
\* wraps nor aborts
C26_CounterIsNoncePlusBlockIndex ==
    CtrRead =>
        /\ pure.st = "Ok"
        /\ Len(pure.counters) = pure.count
        /\ \A j \in 1..pure.count :
             LET N == pure.block_index + (j - 1)
                 value == (pure.upper_counter * CtrWord
                               + pure.start_offset \div 16) + N
             IN /\ value < CtrWord * CtrWord
                /\ pure.counters[j].hi = value \div CtrWord
                /\ pure.counters[j].lo = value % CtrWord

\* a bulk read of two blocks or more from block 1 on, in a section that
\* starts past its first 16 bytes under the largest upper counter
C26_Witness ==
    /\ pure.op = "read_block_bulk"
    /\ pure.block_index >= 1
    /\ pure.count >= 2
    /\ pure.start_offset >= 16
    /\ pure.upper_counter = CtrWord - 1
    /\ pure.st = "Ok"


(***************************************************************************)
(* The recursive walk                                                      *)
(***************************************************************************)
\* the files and directories of a tree in the order of the walk, each with
\* the names of its ancestors and its own
RECURSIVE TreeEntries(_, _)
TreeEntries(entries, path) ==
    IF entries = <<>> THEN <<>>
    ELSE << [path |-> Append(path, Head(entries).name),
             kind |-> Head(entries).kind] >>
            \o TreeEntries(Head(entries).entries,
                           Append(path, Head(entries).name))
            \o TreeEntries(Tail(entries), path)

\* C28: entries_recursive yields every file and directory of the tree
\* exactly once, each with the path of its actual ancestors
C28_WalkYieldsEveryEntryWithItsPath ==
    pure.done =>
        /\ Len(pure.yielded) = Len(TreeEntries(pure.root, <<>>))
        /\ {pure.yielded[i] : i \in DOMAIN pure.yielded}
               = {TreeEntries(pure.root, <<>>)[i] :
                    i \in DOMAIN TreeEntries(pure.root, <<>>)}

\* what the walk does yield: every entry once, in order, under a path that
\* ends in its name
WalkYieldsEveryEntryOnce ==
    pure.done =>
        /\ Len(pure.yielded) = Len(TreeEntries(pure.root, <<>>))
        /\ \A i \in DOMAIN pure.yielded :
             LET e == TreeEntries(pure.root, <<>>)[i]
             IN /\ pure.yielded[i].kind = e.kind
                /\ pure.yielded[i].path[Len(pure.yielded[i].path)]
                       = e.path[Len(e.path)]

\* no directory of the tree lists an entry after a subdirectory
RECURSIVE DirectoriesComeLast(_)
DirectoriesComeLast(entries) ==
    \A i \in DOMAIN entries :
        entries[i].kind = "Directory" =>
            /\ i = Len(entries)
            /\ DirectoriesComeLast(entries[i].entries)

\* the paths are those of the tree when every subdirectory is the last
\* entry of its directory
WalkOfTreeWithDirectoriesLast ==
    (pure.done /\ DirectoriesComeLast(pure.root)) =>
        pure.yielded = TreeEntries(pure.root, <<>>)


(***************************************************************************)
(* Claims about the levels of a verification storage (SpecLevels)          *)
(***************************************************************************)
\* the block of level k - 1 that holds the digest of block j of level k
HashBlockOf(levels, k, j) == j \div levels[k - 1].block_size

\* block j of level k and the hash blocks above it, up to the master hash
RECURSIVE ChainOf(_, _, _)
ChainOf(levels, k, j) ==
    {[level |-> k, index |-> j]} \cup
        (IF k = 1 THEN {} ELSE ChainOf(levels, k - 1, HashBlockOf(levels, k, j)))

\* the digests that the verification of block j of level k has yet to read:
\* its own, and those of the hash blocks above it as far as none has a
\* verdict
RECURSIVE DependsOn(_, _, _)
DependsOn(levels, k, j) ==
    IF levels[k].block_statuses[j] # "Unchecked" THEN {}
    ELSE {[level |-> k - 1, index |-> j]} \cup
            (IF k = 1 THEN {}
             ELSE DependsOn(levels, k - 1, HashBlockOf(levels, k, j)))

\* a read of the data level has returned Ok
LevelsReadOk == pure.op = "read_block" /\ pure.st = "Ok"

\* every block of the chain of the block read has the verdict Valid
ChainIsValid ==
    \A b \in ChainOf(pure.levels, Len(pure.levels), pure.block_index) :
        pure.levels[b.level].block_statuses[b.index] = "Valid"

\* this step reads a data block whose verification has yet to read a
\* digest that was corrupted
ReadDependingOnCorrupted ==
    /\ pure'.op = "read_block"
    /\ DependsOn(pure.levels, Len(pure.levels), pure'.block_index)
           \cap pure.corrupted # {}

\* C29: at level Full a read of a multi-level verification storage succeeds
\* only if the data block's hash matched and every hash block above it, up
\* to the master hash, was found Valid against its parent; once a digest at
\* any level is corrupted, every read of a not yet verified block that
\* depends on that digest fails with IntegrityCheckFailed
C29_ReadSucceedsOnlyUnderAValidChain ==
    /\ [](LevelsReadOk => ChainIsValid)
    /\ [][ReadDependingOnCorrupted => pure'.st = "IntegrityCheckFailed"]_vars

\* the first half alone: a read that returns Ok leaves a chain of Valid
\* verdicts from the block read up to the master hash
OkReadHasAValidChain == LevelsReadOk => ChainIsValid

\* a read that depends on a corrupted digest never returns Ok: it fails with
\* IntegrityCheckFailed or aborts
ReadDependingOnCorruptedNeverSucceeds ==
    [][ReadDependingOnCorrupted =>
          pure'.st \in {"IntegrityCheckFailed", "Panic"}]_vars

\* block j of level k is a full block
IsFullBlock(levels, k, j) ==
    nth_block_size(Len(levels[k].data), levels[k].block_size, j)
        = levels[k].block_size

\* such a read fails with IntegrityCheckFailed when every block of its chain
\* is a full block
ReadOfFullBlocksFailsTheCheck ==
    [][(/\ ReadDependingOnCorrupted
        /\ \A b \in ChainOf(pure.levels, Len(pure.levels), pure'.block_index) :
              IsFullBlock(pure.levels, b.level, b.index))
          => pure'.st = "IntegrityCheckFailed"]_vars

\* a read of a short trailing block aborts whatever the digests are
LevelsReadOfShortBlock ==
    /\ pure.op = "read_block"
    /\ pure.st = "Panic"
    /\ pure.corrupted # {}
    /\ ~IsFullBlock(pure.levels, Len(pure.levels), pure.block_index)

====
